---- MODULE Spec2Model ----
(***************************************************************************)
(* A model of the route-to-weather pipeline of what-should-i-wear:         *)
(*   - the point sampler        (frontend/src/utils/gpxParser.js)          *)
(*   - the geocoder, the forecast fetcher, the multi-point aggregator,     *)
(*     the recommendation engine with its six layer tables, and the        *)
(*     request handler of the page                                         *)
(*                              (frontend/src/StandAloneApp.jsx)           *)
(* JavaScript numbers that can leave the integers (a division by zero, a   *)
(* mean) are modelled as records, so that Infinity and NaN are values.     *)
(***************************************************************************)
EXTENDS Integers, Sequences, FiniteSets, TLC

VARIABLES
    \* ---- point sampler ----
    allPoints,      \* the argument allPoints of the current samplePoints call
    targetCount,    \* the argument targetCount
    sampled,        \* what the call did: [outcome, value]
    firstSampled,   \* the value returned by the first call, kept for the second
    pass,           \* 0: arguments chosen, 1: sampled once, 2: sampled twice
    \* ---- forecast request ----
    inputMethod,    \* "search" or "gpx"
    startTime,      \* the start time of the request, in hours
    fetches,        \* one entry per fetchWeatherData call of the request
    weatherData,    \* the forecast handed to generateRecommendations
    avgTemp,        \* the base temperature generateRecommendations computes
    stage,          \* "idle", "fetching", "done"
    \* ---- recommendation engine and the page around it ----
    selectedActivity,   \* the activity id given to generateRecommendations
    selectedEffort,     \* the effort id given to generateRecommendations
    feltTemp,           \* feltTemp of the last generateRecommendations call
    maxWind,            \* its maxWind
    hasRain,            \* its hasRain
    recommendations,    \* what the call did: [outcome, kind, value]
    pageStep,           \* the page's `step`: 1 the form, 2 the results view
    sampledGpxPoints,   \* the sampled points of the uploaded route
    \* ---- fetchWeatherData called on its own ----
    providedCoords,     \* the argument providedCoords: "provided" or "null"
    geocoded,           \* what geocodeLocation resolves to in these calls
    observed,           \* what the provider call does in these calls
    calls,              \* the values the calls resolved to, oldest first
    \* ---- the form: RouteInput and its parent ----
    routeInput,         \* RouteInput's own state (its useState values)
    parsing,            \* handleFileUpload calls waiting for parseGPXFile
    locations,          \* the parent's locations
    gpxPoints,          \* the parent's gpxPoints
    gpxMetadata,        \* the parent's gpxMetadata, <<>> for null
    locationCoords,     \* the parent's locationCoords, <<>> for null
    requests,           \* handleGetRecommendations calls waiting for their fetch
    alertShown,         \* the alert() on screen, "" for none
    requestCount,       \* how many requests went on to fetch
    shownRequest        \* which of them computed the recommendations held

samplerVars == <<allPoints, targetCount, sampled, firstSampled, pass>>

forecastVars == <<inputMethod, startTime, fetches, weatherData, avgTemp, stage>>

engineVars == <<selectedActivity, selectedEffort, feltTemp, maxWind, hasRain,
                recommendations>>

pageVars == <<pageStep, sampledGpxPoints>>

fetcherVars == <<providedCoords, geocoded, observed, calls>>

routeVars == <<routeInput, parsing, locations, gpxPoints, gpxMetadata,
               locationCoords, requests, alertShown, requestCount, shownRequest>>

vars == <<allPoints, targetCount, sampled, firstSampled, pass,
          inputMethod, startTime, fetches, weatherData, avgTemp, stage,
          selectedActivity, selectedEffort, feltTemp, maxWind, hasRain,
          recommendations, pageStep, sampledGpxPoints,
          providedCoords, geocoded, observed, calls,
          routeInput, parsing, locations, gpxPoints, gpxMetadata,
          locationCoords, requests, alertShown, requestCount, shownRequest>>

-----------------------------------------------------------------------------
(* Bounds of the model *)

MaxLen == 20          \* longest point list given to samplePoints
MaxTarget == 10       \* largest targetCount (10 is the call site's value)
MaxNegTarget == 2     \* targetCount ranges over -MaxNegTarget..MaxTarget
MaxIter == 24         \* loop iterations after which a call counts as not returning
MaxPoints == 2        \* most sampled points of a GPX forecast request
MaxHours == 6         \* most hourly entries of a provider response

-----------------------------------------------------------------------------
(* JavaScript values *)

\* the value of an array read outside 0..length-1
Undefined == [undefined |-> TRUE]

\* arr[k] with JavaScript's 0-based index
At(arr, k) == IF k \in 0..(Len(arr) - 1) THEN arr[k + 1] ELSE Undefined

\* floor(n / d) for integers n and d # 0
FloorDiv(n, d) == IF d > 0 THEN n \div d ELSE (0 - n) \div (0 - d)

\* Math.floor(n / d) as a JavaScript number: n/0 is Infinity, -Infinity or NaN
MathFloorDiv(n, d) ==
    IF d # 0 THEN [kind |-> "num", val |-> FloorDiv(n, d)]
    ELSE IF n > 0 THEN [kind |-> "Infinity", val |-> 0]
    ELSE IF n < 0 THEN [kind |-> "-Infinity", val |-> 0]
    ELSE [kind |-> "NaN", val |-> 0]

-----------------------------------------------------------------------------
(* Point sampler: samplePoints *)

\* a point as parseGPXFile produces it: index is its position in the file's list
Point(k) == [index |-> k]

\* the list parseGPXFile resolves with for a file of len usable points
ParsedPoints(len) == [k \in 1..len |-> Point(k - 1)]

ReturnsUnchangedStrict(len, count) == len < count

\* if (allPoints.length <= targetCount) return allPoints;
ReturnsUnchanged(len, count) == len <= count

\* const step = Math.floor((allPoints.length - 1) / (targetCount - 1));
StepOf(len, count) == MathFloorDiv(len - 1, count - 1)

LoopCondInclusive(i, step, len) == step.kind = "num" /\ i <= len - step.val

LoopCondNoStep(i, step, len) == step.kind = "num" /\ i < len

\* i < allPoints.length - step, with i = step (+ step)*: when step is Infinity
\* or NaN the comparison is Infinity < -Infinity or NaN < NaN, which is false
LoopCond(i, step, len) == step.kind = "num" /\ i < len - step.val

\* for (let i = step; i < allPoints.length - step; i += step) sampled.push(allPoints[i]);
\* sampled.push(allPoints[allPoints.length - 1]); return sampled;
\* fuel counts the iterations still allowed before the call is reported as running
RECURSIVE SampleLoop(_, _, _, _, _)
SampleLoop(points, step, i, acc, fuel) ==
    IF ~LoopCond(i, step, Len(points))
    THEN [outcome |-> "return", value |-> Append(acc, At(points, Len(points) - 1))]
    ELSE IF fuel = 0
    THEN [outcome |-> "running", value |-> acc]
    ELSE SampleLoop(points, step, i + step.val, Append(acc, At(points, i)), fuel - 1)

samplePoints(points, count) ==
    IF ReturnsUnchanged(Len(points), count)
    THEN [outcome |-> "return", value |-> points]
    ELSE LET step == StepOf(Len(points), count)
         IN  SampleLoop(points, step, step.val, <<At(points, 0)>>, MaxIter)

TargetCounts == (0 - MaxNegTarget)..MaxTarget

NotCalled == [outcome |-> "none", value |-> <<>>]

NaN == [num |-> 0, den |-> 0]

\* the forecast request of a run that only samples points: none
NoForecast ==
    /\ inputMethod = "search"
    /\ startTime = 0
    /\ fetches = <<>>
    /\ weatherData = <<>>
    /\ avgTemp = NaN
    /\ stage = "idle"

\* Math.max() of no numbers
NegInfinity == [kind |-> "-Infinity", val |-> 0]

\* the recommendation engine of a run that never calls it
NoRecommendation ==
    /\ selectedActivity = "run"
    /\ selectedEffort = "endurance"
    /\ feltTemp = NaN
    /\ maxWind = NegInfinity
    /\ hasRain = FALSE
    /\ recommendations = [outcome |-> "none", kind |-> "array", value |-> <<>>]

\* fetchWeatherData of a run that does not call it on its own
NoFetcherCalls ==
    /\ providedCoords = "provided"
    /\ geocoded = "none"
    /\ observed = "none"
    /\ calls = <<>>

\* RouteInput's state after construction: search mode, one empty location,
\* no start time, no file, no parsed data, not parsing, no error
RouteInputInit ==
    [ inputMethod  |-> "search",
      locations    |-> <<"">>,
      startTime    |-> <<>>,
      gpxFile      |-> <<>>,
      gpxData      |-> <<>>,
      isParsingGPX |-> FALSE,
      gpxError     |-> <<>> ]

\* the form of a run that does not use it: as constructed
NoRouteInput ==
    /\ routeInput = RouteInputInit
    /\ parsing = <<>>
    /\ locations = <<"">>
    /\ gpxPoints = <<>>
    /\ gpxMetadata = <<>>
    /\ locationCoords = <<>>
    /\ requests = <<>>
    /\ alertShown = ""
    /\ requestCount = 0
    /\ shownRequest = 0

InitSampler ==
    /\ allPoints \in {ParsedPoints(len) : len \in 0..MaxLen}
    /\ targetCount \in TargetCounts
    /\ sampled = NotCalled
    /\ firstSampled = <<>>
    /\ pass = 0
    /\ NoForecast
    /\ NoRecommendation
    /\ pageStep = 1
    /\ sampledGpxPoints = <<>>
    /\ NoFetcherCalls
    /\ NoRouteInput

\* samplePoints(allPoints, targetCount) on a parsed point list
SamplePointsCall ==
    /\ pass = 0
    /\ sampled' = samplePoints(allPoints, targetCount)
    /\ pass' = 1
    /\ UNCHANGED <<allPoints, targetCount, firstSampled>>
    /\ UNCHANGED forecastVars
    /\ UNCHANGED <<engineVars, pageVars, fetcherVars>>
    /\ UNCHANGED routeVars

\* samplePoints(samplePoints(p, T), T): the returned list is sampled again
ResampleCall ==
    /\ pass = 1
    /\ sampled.outcome = "return"
    /\ allPoints' = sampled.value
    /\ firstSampled' = sampled.value
    /\ sampled' = samplePoints(sampled.value, targetCount)
    /\ pass' = 2
    /\ UNCHANGED targetCount
    /\ UNCHANGED forecastVars
    /\ UNCHANGED <<engineVars, pageVars, fetcherVars>>
    /\ UNCHANGED routeVars

NextSampler == SamplePointsCall \/ ResampleCall

SpecSampler == InitSampler /\ [][NextSampler]_vars

-----------------------------------------------------------------------------
(* Claims about the point sampler *)

Called == pass \in {1, 2}

\* the case of C1, C2: a list longer than a targetCount of at least 2
LongCase == Called /\ targetCount >= 2 /\ Len(allPoints) > targetCount

\* C1 (as stated): for L > T >= 2 samplePoints returns at most T points, so at
\* most T per-point forecast fetches are issued.
C1_AtMostTarget ==
    LongCase => (sampled.outcome = "return" /\ Len(sampled.value) <= targetCount)

\* the positions the claim C2 lists: 0, step, 2*step, ... (<= L-1-step), L-1
ClaimedPositions(len, count) ==
    LET step == (len - 1) \div (count - 1)
        m == (len - 1 - step) \div step
    IN  [k \in 1..(m + 2) |-> IF k = m + 2 THEN len - 1 ELSE (k - 1) * step]

\* C2: for L > T >= 2 the output starts with the first point, ends with the
\* last point, and holds exactly the points at positions 0, step, 2*step, ...,
\* L-1, which are strictly increasing, so no point is returned twice.
C2_FirstLastOrdered ==
    LongCase =>
        LET pos == ClaimedPositions(Len(allPoints), targetCount)
            out == sampled.value
        IN  /\ sampled.outcome = "return"
            /\ Len(out) = Len(pos)
            /\ out[1] = allPoints[1]
            /\ out[Len(out)] = allPoints[Len(allPoints)]
            /\ \A k \in 1..Len(out) : out[k] = allPoints[pos[k] + 1]
            /\ \A k \in 1..(Len(pos) - 1) : pos[k] < pos[k + 1]
            /\ \A j, k \in 1..Len(out) : j # k => out[j] # out[k]

C2_Witness ==
    /\ LongCase
    /\ Len(sampled.value) > 2
    /\ Len(sampled.value) < Len(allPoints)

\* C3: a list no longer than targetCount (the empty list included) is returned
\* unchanged.
C3_ShortUnchanged ==
    (Called /\ Len(allPoints) <= targetCount) =>
        (sampled.outcome = "return" /\ sampled.value = allPoints)

C3_Witness ==
    /\ Called
    /\ Len(allPoints) = targetCount
    /\ sampled.value = allPoints
    /\ sampled.outcome = "return"

\* C4: for T >= 2, sampling the sampled list again with the same targetCount
\* returns it unchanged, also when the first sampling returned more than T
\* points.
C4_Idempotent ==
    (pass = 2 /\ targetCount >= 2) =>
        (sampled.outcome = "return" /\ sampled.value = firstSampled)

C4_Witness ==
    /\ pass = 2
    /\ targetCount >= 2
    /\ Len(firstSampled) > targetCount
    /\ sampled.value = firstSampled

\* C5 (as stated): with targetCount <= 1 and a list longer than targetCount
\* the call fails with an invalid-argument condition: it returns no list and
\* does not keep running.
C5_InvalidArgument ==
    (Called /\ targetCount <= 1 /\ Len(allPoints) > targetCount) =>
        sampled.outcome = "invalid-argument"

-----------------------------------------------------------------------------
(* Forecast fetcher: fetchWeatherData, generateMockWeather *)

\* Math.round(n / d) for d > 0: floor(n/d + 1/2)
MathRoundDiv(n, d) == (2 * n + d) \div (2 * d)

\* x || 0 for a provider value that is a number <<v>> or null <<>>
OrZero(x) == IF x = <<>> THEN 0 ELSE x[1]

\* for (let i = 0; i < 5; i++) in fetchWeatherData
FetchHorizon == 5

\* Array.from({ length: 5 }, ...) in generateMockWeather
MockLength == 5

\* Hourly weather of a provider response, in provider units: temperature and
\* wind in tenths (the code rounds them), precipitation probability a number
\* or null, humidity and weather code integers. t0 is the temperature of the
\* first hour, dt its change per hour.
HourlyProfiles ==
    { [t0 |-> 4,   dt |-> 0,   wind |-> 52,  precip |-> <<>>,   hum |-> 41, code |-> 0],
      [t0 |-> 296, dt |-> -15, wind |-> 155, precip |-> <<30>>, hum |-> 62, code |-> 3],
      [t0 |-> -65, dt |-> 20,  wind |-> 204, precip |-> <<31>>, hum |-> 90, code |-> 61] }

\* data.hourly of a response with n hourly entries at hours 0..n-1
Hourly(n, p) ==
    [ time                      |-> [k \in 1..n |-> k - 1],
      temperature_2m            |-> [k \in 1..n |-> p.t0 + (k - 1) * p.dt],
      wind_speed_10m            |-> [k \in 1..n |-> p.wind],
      precipitation_probability |-> [k \in 1..n |-> p.precip],
      relative_humidity_2m      |-> [k \in 1..n |-> p.hum],
      weather_code              |-> [k \in 1..n |-> p.code] ]

\* What the provider call does: it fails (fetch or response.json() throws, or
\* the response has no hourly arrays), or it answers with hourly arrays.
ProviderOutcomes ==
    {[ok |-> FALSE, hourly |-> Hourly(0, p)] : p \in HourlyProfiles}
    \cup {[ok |-> TRUE, hourly |-> Hourly(n, p)] : n \in 0..MaxHours, p \in HourlyProfiles}

\* start times of a request, in hours on the provider's time axis
StartTimes == {-1, 0, 2}

\* data.hourly.time.findIndex(t => new Date(t).getTime() >= currentTime.getTime()):
\* the 0-based index of the first entry >= currentTime, -1 when there is none
RECURSIVE FindIndexFrom(_, _, _)
FindIndexFrom(time, currentTime, k) ==
    IF k > Len(time) THEN -1
    ELSE IF time[k] >= currentTime THEN k - 1
    ELSE FindIndexFrom(time, currentTime, k + 1)

FindIndex(time, currentTime) == FindIndexFrom(time, currentTime, 1)

\* the sample pushed for slot i when hourIndex is found
ForecastSample(name, start, i, hourly, hourIndex) ==
    [ location            |-> name,
      time                |-> start + i,
      temperature         |-> MathRoundDiv(hourly.temperature_2m[hourIndex + 1], 10),
      windSpeed           |-> MathRoundDiv(hourly.wind_speed_10m[hourIndex + 1], 10),
      precipitationChance |-> OrZero(hourly.precipitation_probability[hourIndex + 1]),
      humidity            |-> hourly.relative_humidity_2m[hourIndex + 1],
      weatherCode         |-> hourly.weather_code[hourIndex + 1] ]

\* the loop of fetchWeatherData over the slots i..4: a slot whose hourIndex is
\* -1 pushes nothing
RECURSIVE ForecastLoop(_, _, _, _, _)
ForecastLoop(name, start, i, hourly, acc) ==
    IF i >= FetchHorizon THEN acc
    ELSE LET hourIndex == FindIndex(hourly.time, start + i)
         IN  ForecastLoop(name, start, i + 1, hourly,
                          IF hourIndex # -1
                          THEN Append(acc, ForecastSample(name, start, i, hourly, hourIndex))
                          ELSE acc)

\* Math.random() draws, in tenths; a stream is read cyclically
RandomStreams == {<<0>>, <<9>>, <<0, 9, 5>>}

Draw(stream, k) == stream[((k - 1) % Len(stream)) + 1]

\* generateMockWeather(locations, startTime): 5 samples, each from 5 draws
\*   baseTemp = 50 + r1*30; temperature = round(baseTemp + (r2 - 0.5)*10)
\*   windSpeed = round(5 + r3*15); precipitationChance = round(r4*100)
\*   humidity = round(40 + r5*40); weatherCode = 0
generateMockWeather(name, start, stream) ==
    [ i \in 1..MockLength |->
        LET r(j) == Draw(stream, 5 * (i - 1) + j)
        IN  [ location            |-> name,
              time                |-> start + (i - 1),
              temperature         |-> MathRoundDiv(500 + 30 * r(1) + 10 * r(2) - 50, 10),
              windSpeed           |-> MathRoundDiv(50 + 15 * r(3), 10),
              precipitationChance |-> MathRoundDiv(100 * r(4), 10),
              humidity            |-> MathRoundDiv(400 + 40 * r(5), 10),
              weatherCode         |-> 0 ] ]

fetchWeatherDataAlwaysMock(name, start, outcome, stream) ==
    [ status |-> "fulfilled", coords |-> IF outcome.ok THEN "provided" ELSE "null",
      weatherData |-> generateMockWeather(name, start, stream) ]

\* fetchWeatherData(locations, startTime, providedCoords) with coordinates
\* provided: the provider's outcome decides between the loop and the catch
fetchWeatherData(name, start, outcome, stream) ==
    IF outcome.ok
    THEN [ status |-> "fulfilled", coords |-> "provided",
           weatherData |-> ForecastLoop(name, start, 0, outcome.hourly, <<>>) ]
    ELSE [ status |-> "fulfilled", coords |-> "null",
           weatherData |-> generateMockWeather(name, start, stream) ]

\* a fetchWeatherData promise that has not settled
Pending == [status |-> "pending", coords |-> "null", weatherData |-> <<>>]

-----------------------------------------------------------------------------
(* Multi-point aggregator: the loop of fetchGPXWeatherData *)

\* for (let hourIndex = 0; hourIndex < 5; hourIndex++) in fetchGPXWeatherData
AggregateHorizon == 5

\* seq.filter(keep) for a set keep of positions, order kept
RECURSIVE SelectPositions(_, _, _)
SelectPositions(seq, keep, k) ==
    IF k > Len(seq) THEN <<>>
    ELSE IF k \in keep THEN <<seq[k]>> \o SelectPositions(seq, keep, k + 1)
    ELSE SelectPositions(seq, keep, k + 1)

HourDataPointsOfAll(allWeatherResults, hourIndex) ==
    IF \A k \in 1..Len(allWeatherResults) :
          hourIndex < Len(allWeatherResults[k].weatherData)
    THEN [k \in 1..Len(allWeatherResults) |->
             allWeatherResults[k].weatherData[hourIndex + 1]]
    ELSE <<>>

\* allWeatherResults.map(result => result.weatherData[hourIndex]).filter(Boolean):
\* the hourIndex-th sample of every result that has one, in the results' order
HourDataPoints(allWeatherResults, hourIndex) ==
    LET has == {k \in 1..Len(allWeatherResults) :
                   hourIndex < Len(allWeatherResults[k].weatherData)}
        picked == SelectPositions(allWeatherResults, has, 1)
    IN  [k \in 1..Len(picked) |-> picked[k].weatherData[hourIndex + 1]]

\* Math.min(...s) for a non-empty list of integers
RECURSIVE MathMin(_)
MathMin(s) ==
    IF Len(s) = 1 THEN s[1]
    ELSE LET m == MathMin(Tail(s)) IN IF s[1] < m THEN s[1] ELSE m

MathMaxFirst(s) == s[1]

\* Math.max(...s) for a non-empty list of integers
RECURSIVE MathMax(_)
MathMax(s) ==
    IF Len(s) = 1 THEN s[1]
    ELSE LET m == MathMax(Tail(s)) IN IF s[1] > m THEN s[1] ELSE m

\* s.reduce((sum, h) => sum + h, 0)
RECURSIVE ReduceSum(_)
ReduceSum(s) == IF s = <<>> THEN 0 ELSE s[1] + ReduceSum(Tail(s))

MathFloorMean(sum, n) == sum \div n

\* Math.round(humidities.reduce(...) / humidities.length)
MathRoundMean(sum, n) == MathRoundDiv(sum, n)

\* the record pushed for a slot with at least one sample
AggregatedSample(hourDataPoints) ==
    LET temps == [k \in 1..Len(hourDataPoints) |-> hourDataPoints[k].temperature]
        winds == [k \in 1..Len(hourDataPoints) |-> hourDataPoints[k].windSpeed]
        precips == [k \in 1..Len(hourDataPoints) |-> hourDataPoints[k].precipitationChance]
        humidities == [k \in 1..Len(hourDataPoints) |-> hourDataPoints[k].humidity]
    IN  [ location            |-> "GPX Route",
          time                |-> hourDataPoints[1].time,
          temperature         |-> MathRoundDiv(MathMin(temps) + MathMax(temps), 2),
          temperatureMin      |-> MathMin(temps),
          temperatureMax      |-> MathMax(temps),
          windSpeed           |-> MathMax(winds),
          precipitationChance |-> MathMax(precips),
          humidity            |-> MathRoundMean(ReduceSum(humidities), Len(humidities)),
          weatherCode         |-> hourDataPoints[1].weatherCode,
          isAggregated        |-> TRUE ]

\* the aggregation loop over the slots hourIndex..4
RECURSIVE AggregateLoop(_, _, _)
AggregateLoop(allWeatherResults, hourIndex, acc) ==
    IF hourIndex >= AggregateHorizon THEN acc
    ELSE LET hourDataPoints == HourDataPoints(allWeatherResults, hourIndex)
         IN  AggregateLoop(allWeatherResults, hourIndex + 1,
                           IF Len(hourDataPoints) > 0
                           THEN Append(acc, AggregatedSample(hourDataPoints))
                           ELSE acc)

\* the aggregatedWeather of fetchGPXWeatherData, once Promise.all has resolved
AggregatedWeather(allWeatherResults) == AggregateLoop(allWeatherResults, 0, <<>>)

-----------------------------------------------------------------------------
(* Recommendation engine: the base temperature of generateRecommendations *)

IsAggregatedNever(weather) == FALSE

\* weatherData.length > 0 && weatherData[0].isAggregated
IsAggregated(weather) ==
    /\ Len(weather) > 0
    /\ "isAggregated" \in DOMAIN weather[1]
    /\ weather[1].isAggregated

\* a || b for numbers: 0 is falsy
OrElse(a, b) == IF a = 0 THEN b ELSE a

\* avgTemp of generateRecommendations, as the fraction num/den (0/0 is NaN):
\*   aggregated: Math.min(...weatherData.map(w => w.temperatureMin || w.temperature))
\*   otherwise:  weatherData.reduce((sum, w) => sum + w.temperature, 0) / weatherData.length
AvgTemp(weather) ==
    IF IsAggregated(weather)
    THEN [ num |-> MathMin([k \in 1..Len(weather) |->
                       OrElse(weather[k].temperatureMin, weather[k].temperature)]),
           den |-> 1 ]
    ELSE [ num |-> ReduceSum([k \in 1..Len(weather) |-> weather[k].temperature]),
           den |-> Len(weather) ]

-----------------------------------------------------------------------------
(* Recommendation engine: effort, felt temperature, wind and rain *)

\* EFFORT_LEVELS: id and heatFactor, the factor in tenths (0.7, 1.0, 1.3, 1.6)
EFFORT_LEVELS ==
    << [id |-> "easy",      heatFactor |-> 7],
       [id |-> "endurance", heatFactor |-> 10],
       [id |-> "tempo",     heatFactor |-> 13],
       [id |-> "all-out",   heatFactor |-> 16] >>

FindEffortOrFirst(effortLevel) ==
    IF \E k \in 1..Len(EFFORT_LEVELS) : EFFORT_LEVELS[k].id = effortLevel
    THEN EFFORT_LEVELS[CHOOSE k \in 1..Len(EFFORT_LEVELS) : EFFORT_LEVELS[k].id = effortLevel]
    ELSE EFFORT_LEVELS[1]

\* EFFORT_LEVELS.find(e => e.id === effortLevel): the first match, or undefined
FindEffort(effortLevel) ==
    IF \E k \in 1..Len(EFFORT_LEVELS) : EFFORT_LEVELS[k].id = effortLevel
    THEN EFFORT_LEVELS[CHOOSE k \in 1..Len(EFFORT_LEVELS) :
                          /\ EFFORT_LEVELS[k].id = effortLevel
                          /\ \A j \in 1..(k - 1) : EFFORT_LEVELS[j].id # effortLevel]
    ELSE Undefined

FeltTempCooling(avg, effort) ==
    [ num |-> 10 * avg.num - (effort.heatFactor - 10) * 15 * avg.den,
      den |-> 10 * avg.den ]

\* avgTemp + (effort.heatFactor - 1) * 15 as a fraction; NaN stays NaN.
\* The offsets -4.5, 0, 4.5 and 9 and every sum met here are halves or tenths
\* far from any rounding boundary of a double that a band threshold could see,
\* so the exact fraction selects the band the floating-point value selects.
FeltTemp(avg, effort) ==
    [ num |-> 10 * avg.num + (effort.heatFactor - 10) * 15 * avg.den,
      den |-> 10 * avg.den ]

\* Math.max(...weatherData.map(w => w.windSpeed))
MaxWind(weather) ==
    IF Len(weather) = 0 THEN NegInfinity
    ELSE [kind |-> "num", val |-> MathMax([k \in 1..Len(weather) |-> weather[k].windSpeed])]

HasRainFrom30(weather) ==
    \E k \in 1..Len(weather) : weather[k].precipitationChance >= 30

\* weatherData.some(w => w.precipitationChance > 30)
HasRain(weather) ==
    \E k \in 1..Len(weather) : weather[k].precipitationChance > 30

LessOrNaN(temp, t) == temp.den = 0 \/ temp.num < t * temp.den

LessOrEqual(temp, t) == temp.den > 0 /\ temp.num <= t * temp.den

\* temp < t for a temperature that is a fraction; false for NaN
Less(temp, t) == temp.den > 0 /\ temp.num < t * temp.den

WindyFrom15(wind) == wind.kind = "num" /\ wind.val >= 15

\* wind > 15
Windy(wind) == wind.kind = "num" /\ wind.val > 15

\* { type, item, reason }
Item(type, item, reason) == [type |-> type, item |-> item, reason |-> reason]

(* The item lists the six layer tables push, in the order of the source *)

\* getRunningLayers: temp < 32
RunningBelow32 ==
    << Item("Base Layer", "Thermal long-sleeve top", "Cold protection"),
       Item("Base Layer", "Thermal tights", "Leg warmth"),
       Item("Mid Layer", "Light insulated vest", "Core warmth"),
       Item("Accessories", "Running gloves", "Hand protection"),
       Item("Accessories", "Headband or beanie", "Ear warmth") >>

\* getRunningLayers: 32 <= temp < 50
RunningBelow50 ==
    << Item("Base Layer", "Long-sleeve tech shirt", "Moisture wicking"),
       Item("Base Layer", "Running tights or pants", "Leg comfort"),
       Item("Accessories", "Light gloves", "Hand warmth") >>

\* getRunningLayers: 50 <= temp < 65
RunningBelow65 ==
    << Item("Base Layer", "Short-sleeve tech shirt", "Breathability"),
       Item("Base Layer", "Running shorts or capris", "Mobility") >>

\* getRunningLayers: otherwise
RunningWarm ==
    << Item("Base Layer", "Lightweight singlet", "Maximum cooling"),
       Item("Base Layer", "Running shorts", "Comfort"),
       Item("Accessories", "Visor or hat", "Sun protection") >>

\* getRunningLayers: wind > 15
RunningWindItems ==
    << Item("Outer Layer", "Windbreaker jacket", "Wind protection") >>

\* getRunningLayers: rain
RunningRainItems ==
    << Item("Outer Layer", "Waterproof running jacket", "Rain protection") >>

\* getMountainBikeLayers: temp < 40
MountainBikeBelow40 ==
    << Item("Base Layer", "Thermal long-sleeve jersey", "Cold protection"),
       Item("Base Layer", "Padded thermal bib tights", "Comfort and warmth"),
       Item("Mid Layer", "Softshell jacket", "Insulation"),
       Item("Accessories", "Winter cycling gloves", "Hand warmth"),
       Item("Accessories", "Thermal headband", "Ear protection") >>

\* getMountainBikeLayers: 40 <= temp < 60
MountainBikeBelow60 ==
    << Item("Base Layer", "Long-sleeve MTB jersey", "Trail protection"),
       Item("Base Layer", "Padded shorts with knee warmers", "Flexibility"),
       Item("Accessories", "Light gloves", "Grip and protection") >>

\* getMountainBikeLayers: otherwise
MountainBikeWarm ==
    << Item("Base Layer", "Short-sleeve MTB jersey", "Breathability"),
       Item("Base Layer", "Padded shorts", "Comfort"),
       Item("Accessories", "Full-finger gloves", "Trail protection") >>

\* getMountainBikeLayers: rain
MountainBikeRainItems ==
    << Item("Outer Layer", "Waterproof MTB jacket", "Weather protection") >>

\* getMountainBikeLayers: always, last
MountainBikeTrailing ==
    << Item("Safety", "Helmet", "Essential safety"),
       Item("Safety", "Eye protection", "Debris protection") >>

\* getRoadBikeLayers: temp < 45
RoadBikeBelow45 ==
    << Item("Base Layer", "Thermal cycling jersey", "Warmth"),
       Item("Base Layer", "Thermal bib tights", "Leg warmth"),
       Item("Mid Layer", "Wind vest", "Core protection"),
       Item("Accessories", "Winter cycling gloves", "Hand warmth"),
       Item("Accessories", "Thermal cap under helmet", "Head warmth") >>

\* getRoadBikeLayers: 45 <= temp < 65
RoadBikeBelow65 ==
    << Item("Base Layer", "Long-sleeve cycling jersey", "Comfort"),
       Item("Base Layer", "Bib shorts with leg warmers", "Adaptability"),
       Item("Accessories", "Light gloves", "Grip") >>

\* getRoadBikeLayers: otherwise
RoadBikeWarm ==
    << Item("Base Layer", "Short-sleeve cycling jersey", "Cooling"),
       Item("Base Layer", "Bib shorts", "Comfort"),
       Item("Accessories", "Cycling cap", "Sun protection") >>

\* getRoadBikeLayers: wind > 15
RoadBikeWindItems ==
    << Item("Outer Layer", "Wind jacket", "Aerodynamics") >>

\* getRoadBikeLayers: rain
RoadBikeRainItems ==
    << Item("Outer Layer", "Waterproof cycling jacket", "Rain protection") >>

\* getRoadBikeLayers: always, last
RoadBikeTrailing ==
    << Item("Safety", "Helmet", "Essential safety"),
       Item("Safety", "Cycling glasses", "Eye protection") >>

\* getDownhillSkiLayers: temp < 20
DownhillSkiBelow20 ==
    << Item("Base Layer", "Heavyweight thermal top", "Extreme cold"),
       Item("Base Layer", "Heavyweight thermal bottoms", "Leg warmth"),
       Item("Mid Layer", "Insulated ski jacket", "Core warmth"),
       Item("Outer Layer", "Waterproof ski pants", "Snow protection"),
       Item("Accessories", "Insulated ski gloves", "Hand warmth"),
       Item("Accessories", "Balaclava or neck gaiter", "Face protection") >>

\* getDownhillSkiLayers: otherwise
DownhillSkiWarm ==
    << Item("Base Layer", "Midweight thermal top", "Moisture management"),
       Item("Base Layer", "Midweight thermal bottoms", "Comfort"),
       Item("Mid Layer", "Lightweight insulated jacket", "Warmth"),
       Item("Outer Layer", "Waterproof ski pants", "Snow protection"),
       Item("Accessories", "Ski gloves", "Hand protection"),
       Item("Accessories", "Neck gaiter", "Versatility") >>

\* getDownhillSkiLayers: always, last
DownhillSkiTrailing ==
    << Item("Safety", "Ski helmet", "Essential safety"),
       Item("Safety", "Ski goggles", "Vision protection") >>

\* getBackcountrySkiLayers: temp < 20
BackcountrySkiBelow20 ==
    << Item("Base Layer", "Merino wool top", "Temperature regulation"),
       Item("Base Layer", "Merino wool bottoms", "Warmth and breathability"),
       Item("Mid Layer", "Lightweight down jacket", "Packable warmth"),
       Item("Outer Layer", "Hardshell jacket", "Weather protection"),
       Item("Outer Layer", "Hardshell pants", "Snow protection") >>

\* getBackcountrySkiLayers: otherwise
BackcountrySkiWarm ==
    << Item("Base Layer", "Lightweight merino top", "Breathability"),
       Item("Base Layer", "Lightweight merino bottoms", "Comfort"),
       Item("Mid Layer", "Fleece or softshell", "Active insulation"),
       Item("Outer Layer", "Softshell pants", "Mobility") >>

\* getBackcountrySkiLayers: always, last
BackcountrySkiTrailing ==
    << Item("Accessories", "Lightweight gloves", "Hand warmth while touring"),
       Item("Accessories", "Beanie or headband", "Head warmth"),
       Item("Safety", "Ski helmet", "Safety"),
       Item("Safety", "Ski goggles + sunglasses", "Variable conditions") >>

\* getNordicSkiLayers: temp < 20
NordicSkiBelow20 ==
    << Item("Base Layer", "Thermal racing suit or top/bottom", "Warmth"),
       Item("Mid Layer", "Light vest", "Core warmth"),
       Item("Accessories", "Insulated gloves", "Hand warmth"),
       Item("Accessories", "Headband or light beanie", "Ear protection") >>

\* getNordicSkiLayers: 20 <= temp < 40
NordicSkiBelow40 ==
    << Item("Base Layer", "XC ski suit or jersey/tights", "Aerodynamics"),
       Item("Accessories", "Light gloves", "Grip and warmth"),
       Item("Accessories", "Headband", "Ear warmth") >>

\* getNordicSkiLayers: otherwise
NordicSkiWarm ==
    << Item("Base Layer", "Lightweight XC top", "Cooling"),
       Item("Base Layer", "Lightweight XC tights", "Mobility"),
       Item("Accessories", "Thin gloves", "Pole grip") >>

\* getNordicSkiLayers: wind > 15 || rain
NordicSkiWeatherItems ==
    << Item("Outer Layer", "Wind vest or light shell", "Weather protection") >>

\* getNordicSkiLayers: always, last
NordicSkiTrailing ==
    << Item("Accessories", "Sunglasses or light goggles", "Eye protection") >>

(* The six layer tables *)

getRunningLayers(temp, wind, rain) ==
    (IF Less(temp, 32) THEN RunningBelow32
     ELSE IF Less(temp, 50) THEN RunningBelow50
     ELSE IF Less(temp, 65) THEN RunningBelow65
     ELSE RunningWarm)
    \o (IF Windy(wind) THEN RunningWindItems ELSE <<>>)
    \o (IF rain THEN RunningRainItems ELSE <<>>)

getMountainBikeLayers(temp, wind, rain) ==
    (IF Less(temp, 40) THEN MountainBikeBelow40
     ELSE IF Less(temp, 60) THEN MountainBikeBelow60
     ELSE MountainBikeWarm)
    \o (IF rain THEN MountainBikeRainItems ELSE <<>>)
    \o MountainBikeTrailing

getRoadBikeLayersSafetyFirst(temp, wind, rain) ==
    (IF Less(temp, 45) THEN RoadBikeBelow45
     ELSE IF Less(temp, 65) THEN RoadBikeBelow65
     ELSE RoadBikeWarm)
    \o RoadBikeTrailing
    \o (IF Windy(wind) THEN RoadBikeWindItems ELSE <<>>)
    \o (IF rain THEN RoadBikeRainItems ELSE <<>>)

getRoadBikeLayers(temp, wind, rain) ==
    (IF Less(temp, 45) THEN RoadBikeBelow45
     ELSE IF Less(temp, 65) THEN RoadBikeBelow65
     ELSE RoadBikeWarm)
    \o (IF Windy(wind) THEN RoadBikeWindItems ELSE <<>>)
    \o (IF rain THEN RoadBikeRainItems ELSE <<>>)
    \o RoadBikeTrailing

getDownhillSkiLayers(temp, wind, rain) ==
    (IF Less(temp, 20) THEN DownhillSkiBelow20 ELSE DownhillSkiWarm)
    \o DownhillSkiTrailing

getBackcountrySkiLayers(temp, wind, rain) ==
    (IF Less(temp, 20) THEN BackcountrySkiBelow20 ELSE BackcountrySkiWarm)
    \o BackcountrySkiTrailing

getNordicSkiLayers(temp, wind, rain) ==
    (IF Less(temp, 20) THEN NordicSkiBelow20
     ELSE IF Less(temp, 40) THEN NordicSkiBelow40
     ELSE NordicSkiWarm)
    \o (IF Windy(wind) \/ rain THEN NordicSkiWeatherItems ELSE <<>>)
    \o NordicSkiTrailing

(* generateRecommendations *)

\* the keys of the object literal `layers`
LayerKeys ==
    {"run", "mountain-bike", "road-bike", "downhill-ski", "backcountry-ski", "nordic-ski"}

\* names every object literal inherits from Object.prototype
ObjectPrototypeKeys ==
    {"constructor", "toString", "valueOf", "hasOwnProperty", "__proto__"}

\* layers[activity]: an own key gives its list, an inherited name gives the
\* inherited member (a function or an object, not a list), anything else
\* gives undefined
LayersLookup(activity, temp, wind, rain) ==
    IF activity = "run"
    THEN [kind |-> "array", value |-> getRunningLayers(temp, wind, rain)]
    ELSE IF activity = "mountain-bike"
    THEN [kind |-> "array", value |-> getMountainBikeLayers(temp, wind, rain)]
    ELSE IF activity = "road-bike"
    THEN [kind |-> "array", value |-> getRoadBikeLayers(temp, wind, rain)]
    ELSE IF activity = "downhill-ski"
    THEN [kind |-> "array", value |-> getDownhillSkiLayers(temp, wind, rain)]
    ELSE IF activity = "backcountry-ski"
    THEN [kind |-> "array", value |-> getBackcountrySkiLayers(temp, wind, rain)]
    ELSE IF activity = "nordic-ski"
    THEN [kind |-> "array", value |-> getNordicSkiLayers(temp, wind, rain)]
    ELSE IF activity \in ObjectPrototypeKeys
    THEN [kind |-> "inherited", value |-> <<>>]
    ELSE [kind |-> "undefined", value |-> <<>>]

\* x || []: undefined is falsy, a list, a function and an object are truthy
OrEmptyList(x) == IF x.kind = "undefined" THEN [kind |-> "array", value |-> <<>>] ELSE x

\* generateRecommendations(activity, weatherData, effortLevel): reading
\* effort.heatFactor of an effort that find did not find throws a TypeError
generateRecommendations(activity, weather, effortLevel) ==
    LET effort == FindEffort(effortLevel)
    IN  IF effort = Undefined
        THEN [outcome |-> "throw", kind |-> "TypeError", value |-> <<>>]
        ELSE LET list == OrEmptyList(LayersLookup(activity,
                                                  FeltTemp(AvgTemp(weather), effort),
                                                  MaxWind(weather), HasRain(weather)))
             IN  [outcome |-> "return", kind |-> list.kind, value |-> list.value]

-----------------------------------------------------------------------------
(* A forecast request: handleGetRecommendations from its fetches on *)

\* the sampler of a run that only requests a forecast: not called
NoSampling ==
    /\ allPoints = <<>>
    /\ targetCount = 10
    /\ sampled = NotCalled
    /\ firstSampled = <<>>
    /\ pass = 0

\* The request has been issued: in GPX mode one fetch per sampled point, all
\* started by sampledPoints.map before Promise.all; in search mode one fetch.
InitForecast ==
    /\ NoSampling
    /\ inputMethod \in {"search", "gpx"}
    /\ startTime \in StartTimes
    /\ fetches \in {[k \in 1..n |-> Pending] :
                      n \in IF inputMethod = "gpx" THEN 1..MaxPoints ELSE {1}}
    /\ weatherData = <<>>
    /\ avgTemp = NaN
    /\ stage = "fetching"
    /\ NoRecommendation
    /\ pageStep = 1
    /\ sampledGpxPoints = (IF inputMethod = "gpx" THEN ParsedPoints(Len(fetches)) ELSE <<>>)
    /\ NoFetcherCalls
    /\ NoRouteInput

\* the values the fetchWeatherData call of point k can resolve to, by start
\* time: one per provider outcome and stream of random draws
FetchResults ==
    [k \in 1..MaxPoints |->
        [start \in StartTimes |->
            {fetchWeatherData(k, start, outcome, stream) :
                outcome \in ProviderOutcomes, stream \in RandomStreams}]]

\* the provider call of the k-th fetchWeatherData settles and the fetch resolves
FetchSettles(k) ==
    /\ stage = "fetching"
    /\ k \in 1..Len(fetches)
    /\ fetches[k].status = "pending"
    /\ \E result \in FetchResults[k][startTime] :
          fetches' = [fetches EXCEPT ![k] = result]
    /\ UNCHANGED <<inputMethod, startTime, weatherData, avgTemp, stage>>
    /\ UNCHANGED samplerVars
    /\ UNCHANGED <<engineVars, pageVars, fetcherVars>>
    /\ UNCHANGED routeVars

AnySettled == \E k \in 1..Len(fetches) : fetches[k].status = "fulfilled"

AllSettled == \A k \in 1..Len(fetches) : fetches[k].status = "fulfilled"

\* generateRecommendations(selectedActivity, weather, selectedEffort) and what
\* it computed on the way; a call that throws computed no felt temperature
Recommending(weather) ==
    LET effort == FindEffort(selectedEffort)
    IN  /\ feltTemp' = (IF effort = Undefined THEN NaN
                        ELSE FeltTemp(AvgTemp(weather), effort))
        /\ maxWind' = MaxWind(weather)
        /\ hasRain' = HasRain(weather)
        /\ recommendations' =
               generateRecommendations(selectedActivity, weather, selectedEffort)
        /\ UNCHANGED <<selectedActivity, selectedEffort>>

SetStepNever(outcome, current) == current

\* setStep(2), which a call that throws does not reach
SetStep(outcome, current) == IF outcome = "return" THEN 2 ELSE current

\* the end of handleGetRecommendations: generateRecommendations,
\* setRecommendations, setStep(2)
ShowRecommendations(weather) ==
    /\ Recommending(weather)
    /\ pageStep' = SetStep(recommendations'.outcome, pageStep)
    /\ UNCHANGED sampledGpxPoints

\* GPX mode: Promise.all resolves, fetchGPXWeatherData aggregates, and
\* handleGetRecommendations goes on to generateRecommendations and the
\* results view
GpxJoin ==
    /\ stage = "fetching"
    /\ inputMethod = "gpx"
    /\ AllSettled
    /\ weatherData' = AggregatedWeather(fetches)
    /\ avgTemp' = AvgTemp(weatherData')
    /\ ShowRecommendations(weatherData')
    /\ stage' = "done"
    /\ UNCHANGED <<inputMethod, startTime, fetches>>
    /\ UNCHANGED samplerVars
    /\ UNCHANGED fetcherVars
    /\ UNCHANGED routeVars

\* search mode: the single fetch's weatherData goes to generateRecommendations
\* and the results view follows
SearchDone ==
    /\ stage = "fetching"
    /\ inputMethod = "search"
    /\ AllSettled
    /\ weatherData' = fetches[1].weatherData
    /\ avgTemp' = AvgTemp(weatherData')
    /\ ShowRecommendations(weatherData')
    /\ stage' = "done"
    /\ UNCHANGED <<inputMethod, startTime, fetches>>
    /\ UNCHANGED samplerVars
    /\ UNCHANGED fetcherVars
    /\ UNCHANGED routeVars

NextForecast == (\E k \in 1..Len(fetches) : FetchSettles(k)) \/ GpxJoin \/ SearchDone

SpecForecast == InitForecast /\ [][NextForecast]_vars

-----------------------------------------------------------------------------
(* Claims about the forecast fetcher, the aggregator and the base temperature *)

\* C6 (as stated): every fetchWeatherData result has exactly 5 samples; a
\* slot that does not resolve gives the 5-sample mock sequence, never a
\* shorter list.
C6_FiveSamples ==
    \A k \in 1..Len(fetches) :
        fetches[k].status = "fulfilled" => Len(fetches[k].weatherData) = 5

GpxDone == stage = "done" /\ inputMethod = "gpx"

\* the lengths of the per-point forecast sequences of the request
SequenceLengths == {Len(fetches[k].weatherData) : k \in 1..Len(fetches)}

\* C7 (as stated): the number of aggregated samples is the minimum of the
\* lengths of the per-point sequences.
C7_CountIsMin ==
    GpxDone =>
        \E m \in SequenceLengths :
            /\ \A n \in SequenceLengths : m <= n
            /\ Len(weatherData) = m

\* C7 (amended): the number of aggregated samples is the maximum of the
\* lengths of the per-point sequences: a slot missing from some sequences
\* but present in another still yields an aggregated sample.
C7_CountIsMax ==
    GpxDone =>
        \E m \in SequenceLengths :
            /\ \A n \in SequenceLengths : n <= m
            /\ Len(weatherData) = m

C7_Witness ==
    /\ GpxDone
    /\ \E m, n \in SequenceLengths : m < n /\ Len(weatherData) = n

\* the points whose sequence has an h-th sample (h counted from 0)
PointsWith(h) == {k \in 1..Len(fetches) : Len(fetches[k].weatherData) > h}

\* the slots for which some point has a sample
PresentSlots == {h \in 0..4 : PointsWith(h) # {}}

\* the sum of field-values over a set of points, each point counted once
RECURSIVE HumiditySum(_, _)
HumiditySum(K, h) ==
    IF K = {} THEN 0
    ELSE LET k == CHOOSE x \in K : TRUE
         IN  fetches[k].weatherData[h + 1].humidity + HumiditySum(K \ {k}, h)

\* r = round(n / d) for d > 0, halves rounded up
IsRounded(r, n, d) == 2 * d * r <= 2 * n + d /\ 2 * n + d < 2 * d * (r + 1)

\* C8: the aggregate has a record for slot h exactly when some sequence has an
\* h-th sample, computed over exactly the sequences that have one:
\* temperatureMin = min, temperatureMax = max, temperature = round((min+max)/2),
\* windSpeed = max, precipitationChance = max, humidity = round(mean),
\* isAggregated = true; so min <= temperature <= max, and identical values at
\* a slot give temperatureMin = temperatureMax = that value.
C8_AggregateFields ==
    GpxDone =>
        /\ Len(weatherData) = Cardinality(PresentSlots)
        /\ \A h \in PresentSlots :
              LET rec == weatherData[Cardinality({g \in PresentSlots : g <= h})]
                  K == PointsWith(h)
                  S == {fetches[k].weatherData[h + 1] : k \in K}
                  temps == {s.temperature : s \in S}
              IN  /\ rec.temperatureMin \in temps
                  /\ \A x \in temps : rec.temperatureMin <= x
                  /\ rec.temperatureMax \in temps
                  /\ \A x \in temps : x <= rec.temperatureMax
                  /\ IsRounded(rec.temperature, rec.temperatureMin + rec.temperatureMax, 2)
                  /\ rec.temperatureMin <= rec.temperature
                  /\ rec.temperature <= rec.temperatureMax
                  /\ rec.windSpeed \in {s.windSpeed : s \in S}
                  /\ \A s \in S : s.windSpeed <= rec.windSpeed
                  /\ rec.precipitationChance \in {s.precipitationChance : s \in S}
                  /\ \A s \in S : s.precipitationChance <= rec.precipitationChance
                  /\ IsRounded(rec.humidity, HumiditySum(K, h), Cardinality(K))
                  /\ rec.isAggregated = TRUE
                  /\ (Cardinality(temps) = 1 =>
                        \A x \in temps : rec.temperatureMin = x /\ rec.temperatureMax = x)

C8_Witness ==
    /\ GpxDone
    /\ Len(fetches) >= 2
    /\ \E m, n \in SequenceLengths : m < n
    /\ \E h \in 1..Len(weatherData) :
          /\ weatherData[h].temperatureMin < weatherData[h].temperatureMax
          /\ Cardinality(PointsWith(h - 1)) >= 2

\* the orders of n points: the permutations of 1..n
PointOrders(n) ==
    {f \in [1..n -> 1..n] : \A i, j \in 1..n : i # j => f[i] # f[j]}

\* the per-point results in the order f
Permuted(f) == [k \in 1..Len(fetches) |-> fetches[f[k]]]

\* C9 (as stated): aggregating any permutation of the per-point sequences
\* yields the same aggregated sequence, every field of every record included
\* (time and weatherCode too).
C9_OrderIndependent ==
    GpxDone =>
        \A f \in PointOrders(Len(fetches)) :
            AggregatedWeather(Permuted(f)) = weatherData

WithoutWeatherCode(weather) ==
    [k \in 1..Len(weather) |-> [weather[k] EXCEPT !.weatherCode = 0]]

\* C9 (amended): aggregating any permutation of the per-point sequences yields
\* the same aggregated sequence in every field except weatherCode, which is
\* the weatherCode of the first sequence, in list order, that has the slot;
\* records appear in increasing hour-slot order.
C9_OrderIndependentButCode ==
    GpxDone =>
        /\ \A f \in PointOrders(Len(fetches)) :
              LET agg == AggregatedWeather(Permuted(f))
              IN  /\ WithoutWeatherCode(agg) = WithoutWeatherCode(weatherData)
                  /\ \A h \in 1..Len(agg) :
                        \E k \in 1..Len(fetches) :
                            /\ Len(fetches[f[k]].weatherData) >= h
                            /\ \A j \in 1..(k - 1) : Len(fetches[f[j]].weatherData) < h
                            /\ agg[h].weatherCode = fetches[f[k]].weatherData[h].weatherCode
        /\ \A h \in 1..Len(weatherData) : weatherData[h].time = startTime + (h - 1)

C9_Witness ==
    /\ GpxDone
    /\ Len(fetches) >= 2
    /\ Len(weatherData) > 0
    /\ \E f \in PointOrders(Len(fetches)) :
          /\ AggregatedWeather(Permuted(f)) # weatherData
          /\ WithoutWeatherCode(AggregatedWeather(Permuted(f)))
                = WithoutWeatherCode(weatherData)

\* C10 (as stated): the base temperature is, for an aggregated forecast, the
\* minimum of temperatureMin over all samples (0 and negative values
\* included), and for a non-aggregated forecast the mean of temperature.
C10_BaseTemperature ==
    (stage = "done" /\ Len(weatherData) > 0) =>
        IF IsAggregated(weatherData)
        THEN /\ avgTemp.den = 1
             /\ \E k \in 1..Len(weatherData) : avgTemp.num = weatherData[k].temperatureMin
             /\ \A k \in 1..Len(weatherData) : avgTemp.num <= weatherData[k].temperatureMin
        ELSE /\ avgTemp.den > 0
             /\ avgTemp.num * Len(weatherData)
                   = avgTemp.den * ReduceSum([k \in 1..Len(weatherData) |->
                                                 weatherData[k].temperature])

-----------------------------------------------------------------------------
(* generateRecommendations called on a forecast *)

MinTemp == 10     \* lowest sample temperature given to generateRecommendations
MaxTemp == 66     \* highest sample temperature

\* a forecast sample as fetchWeatherData pushes it
Sample(t, w, p) ==
    [ location |-> "Boulder", time |-> 0, temperature |-> t, windSpeed |-> w,
      precipitationChance |-> p, humidity |-> 50, weatherCode |-> 0 ]

\* wind speeds and precipitation chances around the two triggers
Winds == {5, 15, 16}

Chances == {0, 30, 31}

\* a settled fetchWeatherData result with the given samples
Fulfilled(samples) == [status |-> "fulfilled", coords |-> "provided", weatherData |-> samples]

\* the forecast of one route point over five hours
PointForecast(temps, w, p) == [k \in 1..Len(temps) |-> Sample(temps[k], w, p)]

\* a two-point route: hourly minima 30, 28, 29, 31, 30, wind up to 20 and no
\* precipitation chance over 30
RoadBikeScenario ==
    AggregatedWeather(<< Fulfilled(PointForecast(<<30, 28, 29, 31, 30>>, 20, 10)),
                         Fulfilled(PointForecast(<<60, 58, 59, 61, 60>>, 12, 30)) >>)

\* the forecasts given to generateRecommendations: none, one sample, two
\* samples in either order, an aggregated forecast of two points
RecommendWeather ==
    {<<>>, RoadBikeScenario}
    \cup {<<Sample(t, w, p)>> : t \in MinTemp..MaxTemp, w \in Winds, p \in Chances}
    \cup {<<Sample(t, w, w + 15), Sample(t + 1, 5, 0)>> : t \in MinTemp..MaxTemp, w \in Winds}
    \cup {<<Sample(t + 1, 5, 0), Sample(t, w, w + 15)>> : t \in MinTemp..MaxTemp, w \in Winds}
    \cup {AggregatedWeather(<< Fulfilled(<<Sample(t + 20, 5, 30)>>),
                               Fulfilled(<<Sample(t, w, 46 - w)>>) >>) :
             t \in MinTemp..MaxTemp, w \in Winds}

\* activity ids: the six of the page, one unknown id, one name that every
\* object inherits
ActivityIds == LayerKeys \cup {"hike", "constructor"}

\* effort ids: the four of the page and one unknown id
EffortIds == {EFFORT_LEVELS[k].id : k \in 1..Len(EFFORT_LEVELS)} \cup {"sprint"}

InitRecommend ==
    /\ NoSampling
    /\ inputMethod = "search"
    /\ startTime = 0
    /\ fetches = <<>>
    /\ weatherData \in RecommendWeather
    /\ avgTemp = NaN
    /\ stage = "idle"
    /\ selectedActivity \in ActivityIds
    /\ selectedEffort \in EffortIds
    /\ feltTemp = NaN
    /\ maxWind = NegInfinity
    /\ hasRain = FALSE
    /\ recommendations = [outcome |-> "none", kind |-> "array", value |-> <<>>]
    /\ pageStep = 1
    /\ sampledGpxPoints = <<>>
    /\ NoFetcherCalls
    /\ NoRouteInput

\* generateRecommendations(selectedActivity, weatherData, selectedEffort)
GenerateRecommendationsCall ==
    /\ recommendations.outcome = "none"
    /\ avgTemp' = AvgTemp(weatherData)
    /\ Recommending(weatherData)
    /\ UNCHANGED <<inputMethod, startTime, fetches, weatherData, stage>>
    /\ UNCHANGED <<samplerVars, pageVars, fetcherVars>>
    /\ UNCHANGED routeVars

NextRecommend == GenerateRecommendationsCall

SpecRecommend == InitRecommend /\ [][NextRecommend]_vars

-----------------------------------------------------------------------------
(* Claims about the recommendation engine *)

FourEfforts == {"easy", "endurance", "tempo", "all-out"}

\* generateRecommendations was called with one of the four effort ids
RecommendedCase == recommendations.outcome # "none" /\ selectedEffort \in FourEfforts

\* the offsets the claim C11 lists, in tenths of a degree
ClaimedOffset(effortId) ==
    CASE effortId = "easy"      -> -45
      [] effortId = "endurance" -> 0
      [] effortId = "tempo"     -> 45
      [] effortId = "all-out"   -> 90

\* the fraction f equals the fraction base plus tenths/10 (NaN matches NaN)
IsBasePlus(f, base, tenths) ==
    IF base.den = 0 THEN f.den = 0
    ELSE /\ f.den > 0
         /\ f.num * (10 * base.den) = (10 * base.num + tenths * base.den) * f.den

\* the highest precipitationChance of a non-empty forecast
HighestChance(weather) ==
    CHOOSE c \in {weather[k].precipitationChance : k \in 1..Len(weather)} :
        \A k \in 1..Len(weather) : weather[k].precipitationChance <= c

\* C11: for each of the four effort ids the layer table gets feltTemp = base +
\* offset with the offsets -4.5, 0, +4.5, +9, maxWind = the largest windSpeed
\* of the samples, and hasRain = true exactly when the highest
\* precipitationChance is above 30 (exactly 30 gives false).
C11_TableArguments ==
    RecommendedCase =>
        /\ IsBasePlus(feltTemp, avgTemp, ClaimedOffset(selectedEffort))
        /\ Len(weatherData) > 0 =>
              /\ maxWind.kind = "num"
              /\ \A k \in 1..Len(weatherData) : weatherData[k].windSpeed <= maxWind.val
              /\ \E k \in 1..Len(weatherData) : weatherData[k].windSpeed = maxWind.val
              /\ hasRain = (HighestChance(weatherData) > 30)

C11_Witness ==
    /\ RecommendedCase
    /\ selectedEffort = "tempo"
    /\ Len(weatherData) = 2
    /\ HighestChance(weatherData) = 30
    /\ hasRain = FALSE
    /\ maxWind.val = 15
    /\ feltTemp.den > 0
    /\ 2 * feltTemp.num = 2 * feltTemp.den * weatherData[1].temperature + 10 * feltTemp.den

ItemNames(list) == [k \in 1..Len(list) |-> list[k].item]

ItemTypes(list) == [k \in 1..Len(list) |-> list[k].type]

\* the temperature bands of the claim C12: per activity the exclusive upper
\* bounds, coldest first, with their items, and the items of the warmest band
ClaimedBands(activity) ==
    CASE activity = "run" ->
           << [below |-> 32, items |-> RunningBelow32],
              [below |-> 50, items |-> RunningBelow50],
              [below |-> 65, items |-> RunningBelow65] >>
      [] activity = "mountain-bike" ->
           << [below |-> 40, items |-> MountainBikeBelow40],
              [below |-> 60, items |-> MountainBikeBelow60] >>
      [] activity = "road-bike" ->
           << [below |-> 45, items |-> RoadBikeBelow45],
              [below |-> 65, items |-> RoadBikeBelow65] >>
      [] activity = "downhill-ski" ->
           << [below |-> 20, items |-> DownhillSkiBelow20] >>
      [] activity = "backcountry-ski" ->
           << [below |-> 20, items |-> BackcountrySkiBelow20] >>
      [] activity = "nordic-ski" ->
           << [below |-> 20, items |-> NordicSkiBelow20],
              [below |-> 40, items |-> NordicSkiBelow40] >>

ClaimedWarmest(activity) ==
    CASE activity = "run"             -> RunningWarm
      [] activity = "mountain-bike"   -> MountainBikeWarm
      [] activity = "road-bike"       -> RoadBikeWarm
      [] activity = "downhill-ski"    -> DownhillSkiWarm
      [] activity = "backcountry-ski" -> BackcountrySkiWarm
      [] activity = "nordic-ski"      -> NordicSkiWarm

\* the one band of a felt temperature: the coldest band whose exclusive upper
\* bound lies above it, the warmest band when there is none
ClaimedBand(activity, felt) ==
    LET bands == ClaimedBands(activity)
        above == {k \in 1..Len(bands) : felt.den > 0 /\ felt.num < bands[k].below * felt.den}
    IN  IF above = {} THEN ClaimedWarmest(activity)
        ELSE bands[CHOOSE k \in above : \A j \in above : k <= j].items

\* the item each activity adds for wind and for rain; the one weather item of
\* nordic-ski is its wind item and its rain item
ClaimedWindItems(activity) ==
    CASE activity = "run"        -> RunningWindItems
      [] activity = "road-bike"  -> RoadBikeWindItems
      [] activity = "nordic-ski" -> NordicSkiWeatherItems
      [] OTHER                   -> <<>>

ClaimedRainItems(activity) ==
    CASE activity = "run"           -> RunningRainItems
      [] activity = "mountain-bike" -> MountainBikeRainItems
      [] activity = "road-bike"     -> RoadBikeRainItems
      [] activity = "nordic-ski"    -> NordicSkiWeatherItems
      [] OTHER                      -> <<>>

ClaimedTrailing(activity) ==
    CASE activity = "run"             -> <<>>
      [] activity = "mountain-bike"   -> MountainBikeTrailing
      [] activity = "road-bike"       -> RoadBikeTrailing
      [] activity = "downhill-ski"    -> DownhillSkiTrailing
      [] activity = "backcountry-ski" -> BackcountrySkiTrailing
      [] activity = "nordic-ski"      -> NordicSkiTrailing

\* a call for one of the six activities with one of the four efforts
TableCase == RecommendedCase /\ selectedActivity \in LayerKeys

StrongWind == maxWind.kind = "num" /\ maxWind.val > 15

\* the run of the claim's example: easy effort, one sample of 20 degrees,
\* wind 5, no precipitation chance, so a felt temperature of 15.5
RunExample ==
    /\ TableCase
    /\ selectedActivity = "run"
    /\ selectedEffort = "easy"
    /\ weatherData = <<Sample(20, 5, 0)>>

ColdRunNames ==
    << "Thermal long-sleeve top", "Thermal tights", "Light insulated vest",
       "Running gloves", "Headband or beanie" >>

\* C12 (as stated): the list is the items of one band, then the wind item
\* exactly when maxWind > 15, then the rain item exactly when hasRain, then
\* the trailing items.
C12_BandWindRainTrailing ==
    TableCase =>
        /\ recommendations.outcome = "return"
        /\ recommendations.kind = "array"
        /\ recommendations.value =
              ClaimedBand(selectedActivity, feltTemp)
              \o (IF StrongWind THEN ClaimedWindItems(selectedActivity) ELSE <<>>)
              \o (IF hasRain THEN ClaimedRainItems(selectedActivity) ELSE <<>>)
              \o ClaimedTrailing(selectedActivity)

\* C12 (amended): the list is the items of the one band of the felt
\* temperature (exclusive upper bounds, a temperature equal to a bound takes
\* the warmer band), then the activity's weather items, then its trailing
\* items. The weather items are the wind item when maxWind > 15 and then the
\* rain item when hasRain, except that nordic-ski adds its single weather item
\* once when maxWind > 15 or hasRain. The example run returns exactly the five
\* items of the band below 32.
C12_BandWeatherTrailing ==
    /\ TableCase =>
        /\ recommendations.outcome = "return"
        /\ recommendations.kind = "array"
        /\ recommendations.value =
              ClaimedBand(selectedActivity, feltTemp)
              \o (IF selectedActivity = "nordic-ski"
                  THEN (IF StrongWind \/ hasRain THEN NordicSkiWeatherItems ELSE <<>>)
                  ELSE (IF StrongWind THEN ClaimedWindItems(selectedActivity) ELSE <<>>)
                       \o (IF hasRain THEN ClaimedRainItems(selectedActivity) ELSE <<>>))
              \o ClaimedTrailing(selectedActivity)
    /\ RunExample => ItemNames(recommendations.value) = ColdRunNames

C12_Witness ==
    /\ RunExample
    /\ 2 * feltTemp.num = 31 * feltTemp.den
    /\ recommendations.value = RunningBelow32

\* every item of type Safety comes after every item of another type
SafetyLast(list) ==
    \A j, k \in 1..Len(list) :
        (j < k /\ list[j].type = "Safety") => list[k].type = "Safety"

EndsWithSafety(list) ==
    /\ Len(list) > 0
    /\ list[Len(list)].type = "Safety"
    /\ SafetyLast(list)

NoSafety(list) == \A k \in 1..Len(list) : list[k].type # "Safety"

\* C13 (as stated): the list of mountain-bike, road-bike, downhill-ski,
\* backcountry-ski and nordic-ski ends with items of type Safety that come
\* after every band, wind and rain item; the list of run has no Safety item.
C13_SafetyForCyclingAndSkiing ==
    TableCase =>
        IF selectedActivity = "run"
        THEN NoSafety(recommendations.value)
        ELSE EndsWithSafety(recommendations.value)

\* C13 (amended): the list of mountain-bike, road-bike, downhill-ski and
\* backcountry-ski ends with two items of type Safety that come after every
\* band, wind and rain item; the lists of run and of nordic-ski, whose one
\* trailing item is of type Accessories, have no Safety item.
C13_SafetyButRunAndNordic ==
    TableCase =>
        LET list == recommendations.value
        IN  IF selectedActivity \in {"run", "nordic-ski"}
            THEN NoSafety(list)
            ELSE /\ EndsWithSafety(list)
                 /\ Len(list) >= 2
                 /\ list[Len(list) - 1].type = "Safety"
                 /\ Cardinality({k \in 1..Len(list) : list[k].type = "Safety"}) = 2

C13_Witness ==
    /\ TableCase
    /\ selectedActivity = "road-bike"
    /\ StrongWind
    /\ hasRain
    /\ ItemNames(SubSeq(recommendations.value, Len(recommendations.value) - 3,
                        Len(recommendations.value)))
         = <<"Wind jacket", "Waterproof cycling jacket", "Helmet", "Cycling glasses">>

\* C14 (as stated): for an activity id that is not one of the six, any
\* forecast and each of the four efforts, generateRecommendations returns an
\* empty list and does not throw.
C14_UnknownActivityEmpty ==
    (RecommendedCase /\ selectedActivity \notin LayerKeys) =>
        /\ recommendations.outcome = "return"
        /\ recommendations.kind = "array"
        /\ recommendations.value = <<>>

\* the road-bike scenario of C16: tempo effort on the aggregated forecast with
\* hourly minima 30, 28, 29, 31, 30
RoadBikeCase ==
    /\ TableCase
    /\ selectedActivity = "road-bike"
    /\ selectedEffort = "tempo"
    /\ weatherData = RoadBikeScenario

ScenarioHolds ==
    /\ [k \in 1..Len(RoadBikeScenario) |-> RoadBikeScenario[k].temperatureMin]
         = <<30, 28, 29, 31, 30>>
    /\ MathMax([k \in 1..Len(RoadBikeScenario) |-> RoadBikeScenario[k].windSpeed]) = 20
    /\ \A k \in 1..Len(RoadBikeScenario) : RoadBikeScenario[k].precipitationChance <= 30

\* C16 (as stated): in the road-bike scenario the base is 28, feltTemp is
\* 32.5, and the list is the three items of the 45-65 band, the wind jacket,
\* the helmet and the cycling glasses, with no waterproof jacket.
C16_RoadBikeMiddleBand ==
    RoadBikeCase =>
        /\ ScenarioHolds
        /\ avgTemp = [num |-> 28, den |-> 1]
        /\ 2 * feltTemp.num = 65 * feltTemp.den
        /\ ItemNames(recommendations.value) =
              << "Long-sleeve cycling jersey", "Bib shorts with leg warmers", "Light gloves",
                 "Wind jacket", "Helmet", "Cycling glasses" >>

\* C16 (amended): in the road-bike scenario the base is 28, feltTemp is 32.5,
\* which is below 45, and the list is the five items of the coldest band, the
\* wind jacket, the helmet and the cycling glasses, with no waterproof jacket.
C16_RoadBikeColdBand ==
    RoadBikeCase =>
        /\ ScenarioHolds
        /\ avgTemp = [num |-> 28, den |-> 1]
        /\ 2 * feltTemp.num = 65 * feltTemp.den
        /\ ItemNames(recommendations.value) =
              << "Thermal cycling jersey", "Thermal bib tights", "Wind vest",
                 "Winter cycling gloves", "Thermal cap under helmet",
                 "Wind jacket", "Helmet", "Cycling glasses" >>

C16_Witness ==
    /\ RoadBikeCase
    /\ recommendations.outcome = "return"
    /\ Len(recommendations.value) = 8
    /\ hasRain = FALSE
    /\ maxWind.val = 20

-----------------------------------------------------------------------------
(* A request from the filled form: handleGetRecommendations *)

\* activities and efforts selected on the form
RequestActivities == {"road-bike", "hike"}

RequestEfforts == {"tempo"}

\* The form is filled (activity, effort, start time); in GPX mode a route of
\* at least one sampled point is loaded, in search mode a location has been
\* picked from the suggestions.
InitRequest ==
    /\ NoSampling
    /\ inputMethod \in {"search", "gpx"}
    /\ startTime \in StartTimes
    /\ fetches = <<>>
    /\ weatherData = <<>>
    /\ avgTemp = NaN
    /\ stage = "idle"
    /\ selectedActivity \in RequestActivities
    /\ selectedEffort \in RequestEfforts
    /\ feltTemp = NaN
    /\ maxWind = NegInfinity
    /\ hasRain = FALSE
    /\ recommendations = [outcome |-> "none", kind |-> "array", value |-> <<>>]
    /\ pageStep = 1
    /\ sampledGpxPoints \in {ParsedPoints(n) :
                               n \in IF inputMethod = "gpx" THEN 1..MaxPoints ELSE {0}}
    /\ NoFetcherCalls
    /\ NoRouteInput

\* handleGetRecommendations up to its await: in GPX mode sampledPoints.map
\* calls fetchWeatherData once per sampled point, each call running up to its
\* own fetch, before Promise.all is awaited; in search mode one call
IssueRequest ==
    /\ stage = "idle"
    /\ fetches' = (IF inputMethod = "gpx" /\ Len(sampledGpxPoints) > 0
                   THEN [k \in 1..Len(sampledGpxPoints) |-> Pending]
                   ELSE <<Pending>>)
    /\ stage' = "fetching"
    /\ UNCHANGED <<inputMethod, startTime, weatherData, avgTemp>>
    /\ UNCHANGED <<samplerVars, engineVars, pageVars, fetcherVars>>
    /\ UNCHANGED routeVars

NextRequest ==
    \/ IssueRequest
    \/ \E k \in 1..Len(fetches) : FetchSettles(k)
    \/ GpxJoin
    \/ SearchDone

SpecRequest == InitRequest /\ [][NextRequest]_vars

\* GpxJoin is enabled exactly when the request awaits a Promise.all whose
\* fetches have all settled
GpxJoinEnabled == stage = "fetching" /\ inputMethod = "gpx" /\ AllSettled

\* Every provider call settles (the premise of C18), and the continuation of
\* an await whose promise has resolved is run by the event loop. The last
\* conjunct is WF_vars(GpxJoin) with ENABLED <<GpxJoin>>_vars written out as
\* GpxJoinEnabled.
RequestFairness ==
    /\ \A k \in 1..MaxPoints : WF_vars(FetchSettles(k))
    /\ WF_vars(SearchDone)
    /\ ([]<>(~GpxJoinEnabled) \/ []<><<GpxJoin>>_vars)

SpecRequestLive == SpecRequest /\ RequestFairness

-----------------------------------------------------------------------------
(* Claims about a request *)

GpxRequest == inputMethod = "gpx" /\ stage # "idle"

SomePending == \E k \in 1..Len(fetches) : fetches[k].status = "pending"

\* C17: in a GPX request every per-point fetch is started before any is
\* awaited, so while the request is in flight there is one fetch per sampled
\* point; while any of them is pending there is no aggregated forecast and the
\* results view is not shown; the request completes only with every fetch
\* settled, so it never completes when one never settles.
C17_JoinAfterAllSettled ==
    GpxRequest =>
        /\ Len(fetches) = Len(sampledGpxPoints)
        /\ SomePending =>
              /\ weatherData = <<>>
              /\ recommendations.outcome = "none"
              /\ pageStep = 1
              /\ stage = "fetching"
        /\ (stage = "done" \/ pageStep = 2 \/ weatherData # <<>>) => AllSettled

C17_Witness ==
    /\ GpxRequest
    /\ Len(fetches) = 2
    /\ fetches[2].status = "fulfilled"
    /\ fetches[1].status = "pending"
    /\ pageStep = 1

\* a fetch that settled through the catch of fetchWeatherData
Failed(k) == fetches[k].status = "fulfilled" /\ fetches[k].coords = "null"

\* C18: when every provider call settles, a GPX request in flight reaches the
\* results view with recommendations computed; a failed fetch resolves to 5
\* mock samples, which the aggregate then covers, and the join still happens.
C18_ReachesResults ==
    /\ [](\A k \in 1..Len(fetches) : Failed(k) => Len(fetches[k].weatherData) = 5)
    /\ []((GpxRequest /\ stage = "done" /\ \E k \in 1..Len(fetches) : Failed(k))
             => Len(weatherData) = 5)
    /\ (GpxRequest /\ stage = "fetching")
          ~> (stage = "done" /\ pageStep = 2 /\ recommendations.outcome = "return")

C18_Witness ==
    /\ GpxRequest
    /\ stage = "done"
    /\ pageStep = 2
    /\ recommendations.outcome = "return"
    /\ Len(fetches) = 2
    /\ Failed(1)
    /\ ~Failed(2)

-----------------------------------------------------------------------------
(* fetchWeatherData called on its own, with or without coordinates *)

\* what the geocoder call does: a first result, no result, or a failure
\* (fetch or response.json() throws)
GeocoderOutcomes == {"found", "no-result", "failed"}

\* geocodeLocation(locationName): the first result's coordinates, null when
\* there is no result, null from its catch when the call fails
geocodeLocation(outcome) == IF outcome = "found" THEN "geocoded" ELSE "null"

\* fetchWeatherData(locations, startTime, providedCoords): without provided
\* coordinates the location is geocoded first, and `throw new Error('Could
\* not find location')` is inside the try, so the catch of fetchWeatherData
\* turns it into the mock forecast
fetchWeatherDataCall(name, start, provided, geo, outcome, stream) ==
    LET coords == IF provided # "null" THEN provided ELSE geocodeLocation(geo)
    IN  IF coords = "null"
        THEN [ status |-> "fulfilled", coords |-> "null",
               weatherData |-> generateMockWeather(name, start, stream) ]
        ELSE LET result == fetchWeatherData(name, start, outcome, stream)
             IN  [result EXCEPT !.coords = IF @ = "null" THEN "null" ELSE coords]

\* One location and start time, one behaviour of the geocoder and of the
\* provider; fetchWeatherData is then called twice.
InitFetch ==
    /\ NoSampling
    /\ inputMethod = "search"
    /\ startTime \in StartTimes
    /\ fetches = <<>>
    /\ weatherData = <<>>
    /\ avgTemp = NaN
    /\ stage = "idle"
    /\ NoRecommendation
    /\ pageStep = 1
    /\ sampledGpxPoints = <<>>
    /\ providedCoords \in {"provided", "null"}
    /\ geocoded \in (IF providedCoords = "null" THEN GeocoderOutcomes ELSE {"none"})
    /\ observed \in ProviderOutcomes
    /\ calls = <<>>
    /\ NoRouteInput

\* one call of fetchWeatherData, with its own draws of Math.random
FetchCall ==
    /\ Len(calls) < 2
    /\ \E stream \in RandomStreams :
          calls' = Append(calls, fetchWeatherDataCall("Boulder", startTime, providedCoords,
                                                      geocoded, observed, stream))
    /\ UNCHANGED <<providedCoords, geocoded, observed>>
    /\ UNCHANGED <<samplerVars, forecastVars, engineVars, pageVars>>
    /\ UNCHANGED routeVars

NextFetch == FetchCall

SpecFetch == InitFetch /\ [][NextFetch]_vars

-----------------------------------------------------------------------------
(* Claims about fetchWeatherData called on its own *)

\* the geocoder was asked and found no result or failed
NotLocated == providedCoords = "null" /\ geocoded \in {"no-result", "failed"}

\* C19 (as stated): when the geocoder finds no result or fails, the call ends
\* with the 'could not find location' condition and produces no forecast, in
\* particular no mock forecast.
C19_NoForecastWithoutLocation ==
    NotLocated =>
        \A c \in 1..Len(calls) :
            /\ calls[c].status = "rejected"
            /\ calls[c].weatherData = <<>>

\* both calls have returned
CalledTwice == Len(calls) = 2

\* a call that returned the provider's forecast, not the mock forecast
Real(c) == calls[c].coords # "null"

FixedPart(sample) ==
    [location |-> sample.location, time |-> sample.time, weatherCode |-> sample.weatherCode]

MockRanges(sample) ==
    /\ sample.temperature \in 45..85
    /\ sample.windSpeed \in 5..20
    /\ sample.precipitationChance \in 0..100
    /\ sample.humidity \in 40..80

-----------------------------------------------------------------------------
(* Further claims about the recommendation engine and the sampler *)

\* C27: with an empty forecast and one of the four efforts the call returns,
\* and for each of the six activities the list is the items of the warmest
\* band, no wind item and no rain item, then the fixed trailing items.
C27_EmptyForecastWarmest ==
    (TableCase /\ weatherData = <<>>) =>
        /\ recommendations.outcome = "return"
        /\ recommendations.kind = "array"
        /\ recommendations.value =
              ClaimedWarmest(selectedActivity) \o ClaimedTrailing(selectedActivity)

C27_Witness ==
    /\ TableCase
    /\ weatherData = <<>>
    /\ selectedActivity = "nordic-ski"
    /\ feltTemp.den = 0
    /\ maxWind = NegInfinity
    /\ ItemNames(recommendations.value) =
          << "Lightweight XC top", "Lightweight XC tights", "Thin gloves",
             "Sunglasses or light goggles" >>

StartsWith(list, items) ==
    Len(list) >= Len(items) /\ SubSeq(list, 1, Len(items)) = items

AllBands(activity) ==
    [k \in 1..(Len(ClaimedBands(activity)) + 1) |->
        IF k <= Len(ClaimedBands(activity)) THEN ClaimedBands(activity)[k].items
        ELSE ClaimedWarmest(activity)]

BandsOf(activity, list) ==
    {k \in 1..Len(AllBands(activity)) : StartsWith(list, AllBands(activity)[k])}

\* what follows the band items in a list that starts with band k
AfterBand(activity, list, k) ==
    SubSeq(list, Len(AllBands(activity)[k]) + 1, Len(list))

EffortRank(effortId) ==
    CASE effortId = "easy"      -> 1
      [] effortId = "endurance" -> 2
      [] effortId = "tempo"     -> 3
      [] effortId = "all-out"   -> 4

\* C29: for each of the six activities and a non-empty forecast, every higher
\* effort selects a band that is not colder than the band of the selected
\* effort, and the items after the band (wind, rain, trailing) are the same.
C29_MonotoneInEffort ==
    (TableCase /\ weatherData # <<>>) =>
        \A higher \in FourEfforts :
            EffortRank(higher) > EffortRank(selectedEffort) =>
                LET other == generateRecommendations(selectedActivity, weatherData, higher)
                    mine == BandsOf(selectedActivity, recommendations.value)
                    theirs == BandsOf(selectedActivity, other.value)
                IN  /\ other.outcome = "return"
                    /\ Cardinality(mine) = 1
                    /\ Cardinality(theirs) = 1
                    /\ \A j \in mine, k \in theirs :
                          /\ j <= k
                          /\ AfterBand(selectedActivity, recommendations.value, j)
                               = AfterBand(selectedActivity, other.value, k)

\* an easy run in the coldest band that an all-out effort moves to a warmer one
C29_Witness ==
    /\ TableCase
    /\ selectedActivity = "run"
    /\ selectedEffort = "easy"
    /\ weatherData # <<>>
    /\ StrongWind
    /\ hasRain
    /\ BandsOf("run", recommendations.value) = {1}
    /\ BandsOf("run", generateRecommendations("run", weatherData, "all-out").value) = {2}

\* C30: with an effort id that is not one of the four, the call throws for
\* every activity id, known or unknown, and returns no list.
C30_UnknownEffortThrows ==
    (recommendations.outcome # "none" /\ selectedEffort \notin FourEfforts) =>
        /\ recommendations.outcome = "throw"
        /\ recommendations.kind = "TypeError"
        /\ recommendations.value = <<>>

C30_Witness ==
    /\ recommendations.outcome = "throw"
    /\ selectedEffort = "sprint"
    /\ selectedActivity = "hike"
    /\ weatherData # <<>>

\* C23 (as stated): a GPX request with exactly one sampled point hands that
\* point's un-aggregated forecast to the recommendation engine, which takes
\* the mean temperature as base and recommends what it recommends for the
\* same forecast in single-location mode.
C23_SinglePointNotAggregated ==
    (GpxRequest /\ stage = "done" /\ Len(fetches) = 1) =>
        LET forecast == fetches[1].weatherData
        IN  /\ weatherData = forecast
            /\ ~IsAggregated(weatherData)
            /\ avgTemp = [ num |-> ReduceSum([k \in 1..Len(forecast) |-> forecast[k].temperature]),
                           den |-> Len(forecast) ]
            /\ recommendations =
                  generateRecommendations(selectedActivity, forecast, selectedEffort)

-----------------------------------------------------------------------------
(* The form: RouteInput, handleRouteChange and handleGetRecommendations *)

MaxRequests == 2      \* most requests that go on to fetch in one run

\* if (file.size > 5 * 1024 * 1024)
MaxFileSize == 5 * 1024 * 1024

\* setGpxError('File too large. ...')
TooLargeMessage == "File too large. Please upload a GPX file smaller than 5MB."

IsTooLargeNever(size) == FALSE

IsTooLarge(size) == size > MaxFileSize

\* Files the user can choose. content says what FileReader and DOMParser make
\* of the file: "error" (onerror fires), "empty" (no text), "malformed" (a
\* parsererror node) or "gpx"; usable counts the trkpt, rtept and wpt elements
\* whose lat and lon are numbers, which are the ones pushed to points.
GpxFiles ==
    { [name |-> "route.gpx",    size |-> MaxFileSize,     content |-> "gpx",       usable |-> MaxPoints],
      [name |-> "huge.gpx",     size |-> MaxFileSize + 1, content |-> "gpx",       usable |-> 1],
      [name |-> "empty.gpx",    size |-> 0,               content |-> "empty",     usable |-> 0],
      [name |-> "broken.gpx",   size |-> 1,               content |-> "malformed", usable |-> 0],
      [name |-> "nopoints.gpx", size |-> 1,               content |-> "gpx",       usable |-> 0] }

\* reject(new Error('No route data found in GPX file. ...')) when points is empty
NoRouteDataMessage ==
    "No route data found in GPX file. File must contain tracks, routes, or waypoints."

\* parseGPXFile(file): the promise rejects when the file cannot be read, has
\* no text, is not XML or has no usable point; otherwise it resolves with the
\* points and the metadata
parseGPXFile(file) ==
    IF file.content = "error"
    THEN [outcome |-> "reject", message |-> "Failed to read file"]
    ELSE IF file.content = "empty"
    THEN [outcome |-> "reject", message |-> "File is empty or not readable"]
    ELSE IF file.content = "malformed"
    THEN [outcome |-> "reject", message |-> "Invalid XML format"]
    ELSE IF file.usable = 0
    THEN [outcome |-> "reject", message |-> NoRouteDataMessage]
    ELSE [ outcome  |-> "resolve",
           points   |-> ParsedPoints(file.usable),
           metadata |-> [name |-> "GPX Route", totalPoints |-> file.usable] ]

\* what the user types in the location field and picks as start time
TypedLocations == {"Boulder"}

PickedStartTimes == {<<2>>}

\* loc.trim() is empty
IsBlank(loc) == loc \in {"", " "}

\* locations.filter(loc => loc.trim())
RECURSIVE ValidLocations(_)
ValidLocations(locs) ==
    IF locs = <<>> THEN <<>>
    ELSE IF IsBlank(Head(locs)) THEN ValidLocations(Tail(locs))
    ELSE <<Head(locs)>> \o ValidLocations(Tail(locs))

\* activities and efforts the user selects on the form
FormActivities == {"run", "road-bike"}

FormEfforts == {"tempo"}

\* the form is on screen (step === 1) and no alert() blocks the page
FormShown == pageStep = 1 /\ alertShown = ""

\* RouteInput is rendered once an activity is selected
RouteInputShown == FormShown /\ selectedActivity # ""

\* the object a RouteInput handler passes to onRouteChange; a property the
\* handler leaves out, or sets to null, is <<>>
RouteData(method, locs, start, file, points, metadata) ==
    [ inputMethod |-> method, locations |-> locs, startTime |-> start,
      gpxFile |-> file, gpxPoints |-> points, gpxMetadata |-> metadata ]

\* routeData.inputMethod || 'search'
OrSearch(method) == IF method = <<>> THEN "search" ELSE method[1]

\* routeData.gpxMetadata?.name || 'GPX Route'
OrGpxRoute(metadata) ==
    IF metadata = <<>> \/ metadata[1].name = "" THEN "GPX Route" ELSE metadata[1].name

\* if (sampled.length > 0) setLocationCoords(...)
SetLocationCoords(list, current, fresh) == IF Len(list) > 0 THEN fresh ELSE current

ClearGpxStateNever(current) == current

\* setGpxPoints([]), setSampledGpxPoints([]), setGpxMetadata(null)
ClearGpxState(current) == <<>>

\* handleRouteChange(routeData) of the parent
handleRouteChange(routeData) ==
    /\ inputMethod' = OrSearch(routeData.inputMethod)
    /\ locations' = routeData.locations
    /\ startTime' = routeData.startTime
    /\ IF routeData.inputMethod = <<"gpx">> /\ routeData.gpxPoints # <<>>
       THEN LET list == samplePoints(routeData.gpxPoints[1], 10).value
            IN  /\ gpxPoints' = routeData.gpxPoints[1]
                /\ gpxMetadata' = routeData.gpxMetadata
                /\ sampledGpxPoints' = list
                /\ locationCoords' =
                       SetLocationCoords(list, locationCoords,
                           <<[point |-> At(list, 0),
                              name |-> OrGpxRoute(routeData.gpxMetadata)]>>)
       ELSE /\ gpxPoints' = ClearGpxState(gpxPoints)
            /\ sampledGpxPoints' = ClearGpxState(sampledGpxPoints)
            /\ gpxMetadata' = ClearGpxState(gpxMetadata)
            /\ UNCHANGED locationCoords

\* what no handler of the form touches
FormFrame ==
    /\ UNCHANGED samplerVars
    /\ UNCHANGED <<fetches, avgTemp, stage, feltTemp, maxWind, hasRain>>
    /\ UNCHANGED fetcherVars

\* what a RouteInput handler and handleRouteChange leave alone
RouteInputFrame ==
    /\ FormFrame
    /\ UNCHANGED <<selectedActivity, selectedEffort, weatherData, recommendations,
                   pageStep, requests, alertShown, requestCount, shownRequest>>

\* the state after construction: nothing selected, RouteInput as constructed
InitForm ==
    /\ NoSampling
    /\ inputMethod = "search"
    /\ startTime = <<>>
    /\ fetches = <<>>
    /\ weatherData = <<>>
    /\ avgTemp = NaN
    /\ stage = "idle"
    /\ selectedActivity = ""
    /\ selectedEffort = ""
    /\ feltTemp = NaN
    /\ maxWind = NegInfinity
    /\ hasRain = FALSE
    /\ recommendations = [outcome |-> "none", kind |-> "array", value |-> <<>>]
    /\ pageStep = 1
    /\ sampledGpxPoints = <<>>
    /\ NoFetcherCalls
    /\ NoRouteInput

\* an activity button: setSelectedActivity(activity.id)
SelectActivity(activity) ==
    /\ FormShown
    /\ selectedActivity' = activity
    /\ FormFrame
    /\ UNCHANGED <<inputMethod, startTime, weatherData, selectedEffort, recommendations,
                   pageStep, sampledGpxPoints>>
    /\ UNCHANGED routeVars

\* an effort button: setSelectedEffort(effort.id)
SelectEffort(effort) ==
    /\ FormShown
    /\ selectedEffort' = effort
    /\ FormFrame
    /\ UNCHANGED <<inputMethod, startTime, weatherData, selectedActivity, recommendations,
                   pageStep, sampledGpxPoints>>
    /\ UNCHANGED routeVars

\* RouteInput.handleInputMethodChange(method): the toggle buttons
HandleInputMethodChange(method) ==
    /\ RouteInputShown
    /\ routeInput' = [routeInput EXCEPT
                         !.inputMethod = method,
                         !.gpxError = <<>>,
                         !.gpxFile = IF method = "search" THEN <<>> ELSE @,
                         !.gpxData = IF method = "search" THEN <<>> ELSE @]
    /\ handleRouteChange(
           IF method = "gpx" /\ routeInput.gpxData # <<>>
           THEN RouteData(<<method>>, routeInput.locations, routeInput.startTime,
                          routeInput.gpxFile,
                          <<routeInput.gpxData[1].points>>,
                          <<routeInput.gpxData[1].metadata>>)
           ELSE RouteData(<<method>>, routeInput.locations, routeInput.startTime,
                          IF method = "gpx" THEN routeInput.gpxFile ELSE <<>>,
                          <<>>, <<>>))
    /\ UNCHANGED parsing
    /\ RouteInputFrame

\* RouteInput.handleLocationChange(0, value): the location field, which is
\* rendered in search mode only; the object it reports has no inputMethod
HandleLocationChange(value) ==
    /\ RouteInputShown
    /\ routeInput.inputMethod = "search"
    /\ routeInput' = [routeInput EXCEPT !.locations = <<value>>]
    /\ handleRouteChange(RouteData(<<>>, <<value>>, routeInput.startTime,
                                   routeInput.gpxFile, <<>>, <<>>))
    /\ UNCHANGED parsing
    /\ RouteInputFrame

\* RouteInput.handleStartTimeChange(e)
HandleStartTimeChange(value) ==
    /\ RouteInputShown
    /\ routeInput' = [routeInput EXCEPT !.startTime = value]
    /\ handleRouteChange(
           IF routeInput.inputMethod = "gpx" /\ routeInput.gpxData # <<>>
           THEN RouteData(<<routeInput.inputMethod>>, routeInput.locations, value,
                          routeInput.gpxFile,
                          <<routeInput.gpxData[1].points>>,
                          <<routeInput.gpxData[1].metadata>>)
           ELSE RouteData(<<routeInput.inputMethod>>, routeInput.locations, value,
                          routeInput.gpxFile, <<>>, <<>>))
    /\ UNCHANGED parsing
    /\ RouteInputFrame

\* RouteInput.handleFileUpload(e) up to its await: the file field is rendered
\* in GPX mode and disabled while a file is being parsed. A file over the
\* limit gets the error and the handler returns; any other file is handed to
\* parseGPXFile, and the call keeps the locations and start time of the
\* render it was made in.
HandleFileUpload(file) ==
    /\ RouteInputShown
    /\ routeInput.inputMethod = "gpx"
    /\ ~routeInput.isParsingGPX
    /\ IF IsTooLarge(file.size)
       THEN /\ routeInput' = [routeInput EXCEPT
                                 !.gpxError = <<TooLargeMessage>>,
                                 !.gpxFile = <<>>]
            /\ UNCHANGED parsing
       ELSE /\ routeInput' = [routeInput EXCEPT !.isParsingGPX = TRUE, !.gpxError = <<>>]
            /\ parsing' = Append(parsing, [ file      |-> file,
                                            locations |-> routeInput.locations,
                                            startTime |-> routeInput.startTime,
                                            mounted   |-> TRUE ])
    /\ UNCHANGED <<inputMethod, startTime, sampledGpxPoints, locations, gpxPoints,
                   gpxMetadata, locationCoords>>
    /\ RouteInputFrame

\* parsing without its k-th call
RemoveAt(seq, k) == SubSeq(seq, 1, k - 1) \o SubSeq(seq, k + 1, Len(seq))

\* handleFileUpload after its await when parseGPXFile resolved: the try goes
\* on, then the finally. The setters of a RouteInput that has been unmounted
\* since change nothing; onRouteChange is called all the same.
UploadParsed(k) ==
    /\ k \in 1..Len(parsing)
    /\ alertShown = ""
    /\ LET call == parsing[k]
           parsed == parseGPXFile(call.file)
       IN  /\ parsed.outcome = "resolve"
           /\ routeInput' = (IF call.mounted
                             THEN [routeInput EXCEPT
                                      !.gpxFile = <<call.file>>,
                                      !.gpxData = <<[points   |-> parsed.points,
                                                     metadata |-> parsed.metadata]>>,
                                      !.isParsingGPX = FALSE]
                             ELSE routeInput)
           /\ handleRouteChange(RouteData(<<"gpx">>, call.locations, call.startTime,
                                          <<call.file>>, <<parsed.points>>,
                                          <<parsed.metadata>>))
    /\ parsing' = RemoveAt(parsing, k)
    /\ RouteInputFrame

\* handleFileUpload after its await when parseGPXFile rejected: the catch,
\* then the finally
UploadFailed(k) ==
    /\ k \in 1..Len(parsing)
    /\ alertShown = ""
    /\ LET call == parsing[k]
           parsed == parseGPXFile(call.file)
       IN  /\ parsed.outcome = "reject"
           /\ routeInput' = (IF call.mounted
                             THEN [routeInput EXCEPT
                                      !.gpxError = <<parsed.message>>,
                                      !.gpxFile = <<>>,
                                      !.gpxData = <<>>,
                                      !.isParsingGPX = FALSE]
                             ELSE routeInput)
           /\ handleRouteChange(RouteData(<<"search">>, call.locations, call.startTime,
                                          <<>>, <<>>, <<>>))
    /\ parsing' = RemoveAt(parsing, k)
    /\ RouteInputFrame

\* the disabled attribute of the request button
RequestDisabled ==
    \/ selectedActivity = ""
    \/ selectedEffort = ""
    \/ startTime = <<>>
    \/ IF inputMethod = "gpx"
       THEN Len(sampledGpxPoints) = 0
       ELSE \A k \in 1..Len(locations) : IsBlank(locations[k])

\* what handleGetRecommendations does before it awaits: an alert and return,
\* or the fetch of the GPX branch, or the fetch of the search branch
RequestBranch ==
    IF startTime = <<>> \/ selectedActivity = "" \/ selectedEffort = ""
    THEN "Please fill in all fields"
    ELSE IF inputMethod = "gpx" /\ Len(sampledGpxPoints) > 0
    THEN "gpx"
    ELSE IF Len(ValidLocations(locations)) = 0
    THEN "Please enter a location"
    ELSE IF locationCoords = <<>>
    THEN "Please select a location from the dropdown suggestions"
    ELSE "search"

\* handleGetRecommendations up to its await or its return: the call that
\* awaits keeps the state of the render it was made in
HandleGetRecommendations ==
    /\ FormShown
    /\ ~RequestDisabled
    /\ requestCount < MaxRequests
    /\ IF RequestBranch \in {"gpx", "search"}
       THEN /\ requests' = Append(requests,
                               [ id        |-> requestCount + 1,
                                 branch    |-> RequestBranch,
                                 activity  |-> selectedActivity,
                                 effort    |-> selectedEffort,
                                 startTime |-> startTime,
                                 points    |-> sampledGpxPoints,
                                 locations |-> ValidLocations(locations),
                                 coords    |-> locationCoords ])
            /\ requestCount' = requestCount + 1
            /\ UNCHANGED alertShown
       ELSE /\ alertShown' = RequestBranch
            /\ UNCHANGED <<requests, requestCount>>
    /\ FormFrame
    /\ UNCHANGED <<inputMethod, startTime, weatherData, selectedActivity, selectedEffort,
                   recommendations, pageStep, sampledGpxPoints>>
    /\ UNCHANGED <<routeInput, parsing, locations, gpxPoints, gpxMetadata,
                   locationCoords, shownRequest>>

\* the user closes the alert
DismissAlert ==
    /\ alertShown # ""
    /\ alertShown' = ""
    /\ FormFrame
    /\ UNCHANGED <<inputMethod, startTime, weatherData, selectedActivity, selectedEffort,
                   recommendations, pageStep, sampledGpxPoints>>
    /\ UNCHANGED <<routeInput, parsing, locations, gpxPoints, gpxMetadata,
                   locationCoords, requests, requestCount, shownRequest>>

\* what the provider does for the fetches of a request from the form: it
\* answers with MaxHours hourly entries (its other outcomes are those of
\* SpecForecast and SpecFetch)
FormOutcomes ==
    {o \in ProviderOutcomes :
        o.ok /\ Len(o.hourly.time) = MaxHours /\ o.hourly.weather_code[1] = 3}

FormStream == <<0, 9, 5>>

\* fetchGPXWeatherData(sampledPoints, startTime): one fetchWeatherData per
\* sampled point, the aggregate of their results, the first point as coords
fetchGPXWeatherData(sampledPoints, start, outcome, stream) ==
    [ weatherData |->
          AggregatedWeather([k \in 1..Len(sampledPoints) |->
              fetchWeatherData(sampledPoints[k].index, start, outcome, stream)]),
      coords |-> IF Len(sampledPoints) > 0
                 THEN <<[point |-> sampledPoints[1], name |-> "GPX Route"]>>
                 ELSE <<>> ]

\* fetchWeatherData(validLocations, startTime, locationCoords) of the search
\* branch: coords is the object passed in, or null from the catch
fetchSearchWeatherData(locs, start, coords, outcome, stream) ==
    LET result == fetchWeatherData(locs[1], start, outcome, stream)
    IN  [ weatherData |-> result.weatherData,
          coords      |-> IF result.coords = "null" THEN <<>> ELSE coords ]

\* the result the await of a request resolves to
RequestResult(request, outcome, stream) ==
    IF request.branch = "gpx"
    THEN fetchGPXWeatherData(request.points, request.startTime[1], outcome, stream)
    ELSE fetchSearchWeatherData(request.locations, request.startTime[1],
                                request.coords, outcome, stream)

\* generateRecommendations(selectedActivity, weather, selectedEffort) after
\* the await: selectedActivity and selectedEffort are the values of the render
\* the handler was created in
RecommendForRequest(request, weather) ==
    generateRecommendations(request.activity, weather, request.effort)

\* handleGetRecommendations after its await: setWeatherData, setLocationCoords
\* when coords is not null, generateRecommendations, setRecommendations,
\* setStep(2). The results view replaces the form, which unmounts RouteInput:
\* the RouteInput mounted when the form returns starts from its initial state.
RequestSettles(k) ==
    /\ k \in 1..Len(requests)
    /\ alertShown = ""
    /\ \E outcome \in FormOutcomes :
          LET request == requests[k]
              result == RequestResult(request, outcome, FormStream)
              recs == RecommendForRequest(request, result.weatherData)
          IN  /\ weatherData' = result.weatherData
              /\ locationCoords' = (IF result.coords # <<>> THEN result.coords
                                    ELSE locationCoords)
              /\ recommendations' = recs
              /\ pageStep' = SetStep(recs.outcome, pageStep)
              /\ shownRequest' = request.id
    /\ requests' = RemoveAt(requests, k)
    /\ routeInput' = (IF pageStep = 1 /\ pageStep' = 2 THEN RouteInputInit ELSE routeInput)
    /\ parsing' = (IF pageStep = 1 /\ pageStep' = 2
                   THEN [j \in 1..Len(parsing) |-> [parsing[j] EXCEPT !.mounted = FALSE]]
                   ELSE parsing)
    /\ FormFrame
    /\ UNCHANGED <<inputMethod, startTime, selectedActivity, selectedEffort,
                   sampledGpxPoints>>
    /\ UNCHANGED <<locations, gpxPoints, gpxMetadata, alertShown, requestCount>>

\* the button of the results view: setStep(1)
BackToForm ==
    /\ pageStep = 2
    /\ alertShown = ""
    /\ pageStep' = 1
    /\ FormFrame
    /\ UNCHANGED <<inputMethod, startTime, weatherData, selectedActivity, selectedEffort,
                   recommendations, sampledGpxPoints>>
    /\ UNCHANGED routeVars

\* the form while it stays on screen: the selections, RouteInput and the
\* route it reports to the parent
NextRoute ==
    \/ \E activity \in FormActivities : SelectActivity(activity)
    \/ \E effort \in FormEfforts : SelectEffort(effort)
    \/ \E method \in {"search", "gpx"} : HandleInputMethodChange(method)
    \/ \E value \in TypedLocations : HandleLocationChange(value)
    \/ \E value \in PickedStartTimes : HandleStartTimeChange(value)
    \/ \E file \in GpxFiles : HandleFileUpload(file)
    \/ \E k \in 1..Len(parsing) : UploadParsed(k)
    \/ \E k \in 1..Len(parsing) : UploadFailed(k)

SpecRoute == InitForm /\ [][NextRoute]_vars

\* the files chosen in a run that goes on to request recommendations
RequestFiles == {file \in GpxFiles : file.name = "route.gpx"}

\* the form with its requests and the results view
NextForm ==
    \/ \E activity \in FormActivities : SelectActivity(activity)
    \/ \E effort \in FormEfforts : SelectEffort(effort)
    \/ \E method \in {"search", "gpx"} : HandleInputMethodChange(method)
    \/ \E value \in TypedLocations : HandleLocationChange(value)
    \/ \E value \in PickedStartTimes : HandleStartTimeChange(value)
    \/ \E file \in RequestFiles : HandleFileUpload(file)
    \/ \E k \in 1..Len(parsing) : UploadParsed(k)
    \/ HandleGetRecommendations
    \/ DismissAlert
    \/ \E k \in 1..Len(requests) : RequestSettles(k)
    \/ BackToForm

SpecForm == InitForm /\ [][NextForm]_vars

-----------------------------------------------------------------------------
(* Claims about the form *)

\* a file parseGPXFile cannot turn into points: unreadable, not XML, or
\* without a usable point
Unusable(file) == file.content # "gpx" \/ file.usable = 0

\* the messages parseGPXFile rejects with
ParserMessages ==
    { "Failed to read file", "File is empty or not readable", "Invalid XML format",
      NoRouteDataMessage }

\* handleFileUpload comes back from parseGPXFile for an unusable file
UnusableUploadSettles ==
    /\ parsing # <<>>
    /\ Unusable(parsing[1].file)
    /\ parsing' = Tail(parsing)

OversizeUpload ==
    \E file \in GpxFiles : file.size > MaxFileSize /\ HandleFileUpload(file)

\* C22: an upload of a file over 5 MB starts no parse, sets an error message
\* and clears the selected file; RouteInput's parsed data and the parent's
\* route are as before, so a GPX request that could be made before can be
\* made after.
C22_OversizeRejected ==
    [][OversizeUpload =>
          /\ parsing' = parsing
          /\ routeInput'.gpxError # <<>>
          /\ routeInput'.gpxFile = <<>>
          /\ routeInput'.gpxData = routeInput.gpxData
          /\ UNCHANGED <<inputMethod, locations, startTime, gpxPoints,
                         sampledGpxPoints, gpxMetadata, locationCoords>>
          /\ (RequestBranch = "gpx" => RequestBranch' = "gpx")
          /\ (~RequestDisabled => ~RequestDisabled')]_vars

\* an oversize upload after a successful one, with the form filled
C22_Witness ==
    /\ routeInput.gpxError = <<TooLargeMessage>>
    /\ routeInput.gpxFile = <<>>
    /\ routeInput.gpxData # <<>>
    /\ Len(gpxPoints) > 0
    /\ Len(sampledGpxPoints) > 0
    /\ RequestBranch = "gpx"
    /\ ~RequestDisabled

\* a RouteInput handler reports to the parent
RouteInputEvent ==
    \/ \E method \in {"search", "gpx"} : HandleInputMethodChange(method)
    \/ \E value \in TypedLocations : HandleLocationChange(value)
    \/ \E value \in PickedStartTimes : HandleStartTimeChange(value)
    \/ \E k \in 1..Len(parsing) : UploadParsed(k)
    \/ \E k \in 1..Len(parsing) : UploadFailed(k)

\* C26: after every RouteInput event delivered to the parent, the parent's
\* input method is the one selected in RouteInput.
C26_SameInputMethod ==
    [][RouteInputEvent => inputMethod' = routeInput'.inputMethod]_vars

\* the points of the routes the files hold
RoutePoints ==
    UNION { {parseGPXFile(file).points[j] : j \in 1..file.usable} :
              file \in {f \in GpxFiles : ~Unusable(f)} }

\* C24: a request in search mode with a typed location, made when no GPX file
\* was ever uploaded, goes on to fetch a forecast (no alert stops it), and no
\* search request fetches for the coordinates of a GPX route.
C24_SearchRequestFetches ==
    /\ [][(HandleGetRecommendations /\ inputMethod = "search" /\ locationCoords = <<>>)
             => (Len(requests') = Len(requests) + 1 /\ alertShown' = "")]_vars
    /\ [](\A k \in 1..Len(requests) :
             (requests[k].branch = "search" /\ requests[k].coords # <<>>) =>
                 requests[k].coords[1].point \notin RoutePoints)

\* C25: in the results view the recommendations are those of
\* generateRecommendations for the selected activity, the weather held and the
\* selected effort, and they come from the request issued last.
C25_ShownMatchesSelection ==
    pageStep = 2 =>
        /\ recommendations =
               generateRecommendations(selectedActivity, weatherData, selectedEffort)
        /\ shownRequest = requestCount

====
